---------------------------- MODULE Spec2Model ----------------------------
(***************************************************************************)
(* Verification model of the web-crawler repository.                       *)
(*                                                                         *)
(*   SpecNorm   URLNormalizer.normalize (crawler_production.py) as a pure  *)
(*              function over URL strings, applied once and twice.         *)
(*   SpecPC     ProductionCrawler.run and ProductionCrawler.fetch          *)
(*              (crawler_production.py): the crawl loop and the retries.   *)
(*   SpecArch   ProfessionalArchiver.archive (smart_archiver_v4.py): the   *)
(*              crawl loop, the page store and a restart on the archive.   *)
(*   SpecAssets AssetExtractor.download_and_save_asset gathered by the v2  *)
(*              archiver (asset_extractor.py, smart_archiver_v2.py).       *)
(*   SpecRobots RobotsCompliance (robot_parser.py): parse_robots_txt and   *)
(*              can_fetch.                                                 *)
(*                                                                         *)
(* Strings are sequences of one-character strings, so that parsing and     *)
(* formatting are computed character by character as urllib does.          *)
(***************************************************************************)
EXTENDS Integers, Sequences, FiniteSets, TLC

(***************************************************************************)
(* Bounds of the model.                                                    *)
(***************************************************************************)
\* longest path (in characters) of the URLs handed to the normalizer
MaxPathLen == 3
\* largest max_pages a crawler is configured with
MaxPages == 2
\* most requests of one run that the network or the server lets fail
MaxFaults == 2
\* largest max_retries ProductionCrawler is configured with
MaxRetries == 3
\* largest page budget FullCrawler is configured with
MaxFullPages == 4

(***************************************************************************)
(* Characters and strings.                                                 *)
(***************************************************************************)
\* the characters of the model's URLs, in ASCII order (str comparison order)
Alphabet == <<"#", "&", "/", "1", "2", ":", "=", "?", "A", "B", "H", "P", "T",
              "a", "b", "e", "g", "h", "p", "q", "s", "t", "x">>

\* ord(c): the position of c in ASCII order
CharOrd(c) == CHOOSE i \in 1..Len(Alphabet) : Alphabet[i] = c

\* str.lower() on one character
LowerChar(c) ==
    CASE c = "A" -> "a"
      [] c = "B" -> "b"
      [] c = "H" -> "h"
      [] c = "P" -> "p"
      [] c = "S" -> "s"
      [] c = "T" -> "t"
      [] OTHER   -> c

\* str.lower()
Lower(s) == [i \in 1..Len(s) |-> LowerChar(s[i])]

\* str.find over a set of characters: the first index holding one, 0 if none
FindAny(s, cs) ==
    IF \E i \in 1..Len(s) : s[i] \in cs
    THEN CHOOSE i \in 1..Len(s) : s[i] \in cs /\ \A j \in 1..(i-1) : s[j] \notin cs
    ELSE 0

\* s[i:] with a 1-based first index
From(s, i) == SubSeq(s, i, Len(s))

\* s[:i] exclusive of the 1-based index i
Before(s, i) == SubSeq(s, 1, i - 1)

\* str.startswith
StartsWith(s, p) == Len(s) >= Len(p) /\ SubSeq(s, 1, Len(p)) = p

\* str.endswith('/')
EndsWithSlash(s) == Len(s) > 0 /\ s[Len(s)] = "/"

\* str.rstrip('/'): every trailing slash is removed
RECURSIVE RStripSlash(_)
RStripSlash(s) == IF EndsWithSlash(s) THEN RStripSlash(Before(s, Len(s))) ELSE s

\* s < t in Python's str order
RECURSIVE StrLess(_, _)
StrLess(s, t) ==
    IF t = <<>> THEN FALSE
    ELSE IF s = <<>> THEN TRUE
    ELSE IF s[1] = t[1] THEN StrLess(Tail(s), Tail(t))
    ELSE CharOrd(s[1]) < CharOrd(t[1])

\* str.split(sep) on a one-character separator: the sequence of pieces
RECURSIVE Split(_, _)
Split(s, sep) ==
    LET i == FindAny(s, {sep})
    IN IF i = 0 THEN <<s>> ELSE <<Before(s, i)>> \o Split(From(s, i + 1), sep)

\* sorted() of a list of strings (duplicates kept)
RECURSIVE SortedStrs(_)
SortedStrs(l) ==
    IF l = <<>> THEN <<>>
    ELSE LET m == CHOOSE i \in 1..Len(l) :
                    /\ \A j \in 1..Len(l) : ~StrLess(l[j], l[i])
                    /\ \A j \in 1..(i-1) : l[j] # l[i]
             rest == [k \in 1..(Len(l) - 1) |-> IF k < m THEN l[k] ELSE l[k + 1]]
         IN <<l[m]>> \o SortedStrs(rest)

\* "sep".join(list)
RECURSIVE Join(_, _)
Join(l, sep) ==
    IF l = <<>> THEN <<>>
    ELSE IF Len(l) = 1 THEN l[1]
    ELSE l[1] \o <<sep>> \o Join(Tail(l), sep)

(***************************************************************************)
(* urllib.parse as URLNormalizer.normalize uses it.                        *)
(***************************************************************************)
Letters == {"A", "B", "H", "P", "T", "a", "b", "e", "g", "h", "p", "q", "s", "t", "x"}
SchemeChars == Letters \cup {"1", "2"}

\* s cut at index i, the character at i kept with the second piece or
\* dropped; i = 0 (nothing found) leaves s whole
CutKeep(s, i) == IF i = 0 THEN <<s, <<>> >> ELSE <<Before(s, i), From(s, i)>>
CutDrop(s, i) == IF i = 0 THEN <<s, <<>> >> ELSE <<Before(s, i), From(s, i + 1)>>

\* urlsplit, step 1: the scheme is what precedes the first ':' when that is
\* a letter followed by scheme characters; it is lowercased
split_scheme(url, c) ==
    IF /\ c > 1
       /\ url[1] \in Letters
       /\ \A i \in 1..(c-1) : url[i] \in SchemeChars
    THEN <<Lower(Before(url, c)), From(url, c + 1)>>
    ELSE << <<>>, url>>

\* urlsplit, step 2: after '//' the netloc runs to the first of '/', '?', '#'
split_netloc(rest) ==
    IF StartsWith(rest, <<"/", "/">>)
    THEN CutKeep(From(rest, 3), FindAny(From(rest, 3), {"/", "?", "#"}))
    ELSE << <<>>, rest>>

\* urlsplit, steps 3 and 4: the fragment follows the first '#', the query
\* the first '?' of what is left
split_query(scheme, netloc, pq, fragment) ==
    [scheme |-> scheme, netloc |-> netloc, path |-> pq[1], query |-> pq[2],
     fragment |-> fragment]
split_fragment(scheme, netloc, pf) ==
    split_query(scheme, netloc, CutDrop(pf[1], FindAny(pf[1], {"?"})), pf[2])
split_rest(scheme, nr) ==
    split_fragment(scheme, nr[1], CutDrop(nr[2], FindAny(nr[2], {"#"})))
split_url(sr) == split_rest(sr[1], split_netloc(sr[2]))

\* urlparse(url) -> scheme, netloc, path, query, fragment
urlparse(url) == split_url(split_scheme(url, FindAny(url, {":"})))

\* parse_qs(query, keep_blank_values=True): the (name, value) pairs in order;
\* empty pieces between '&' are skipped, a piece without '=' gets value ''.
qs_pair(p) == CutDrop(p, FindAny(p, {"="}))
qs_pairs(pieces) == [i \in 1..Len(pieces) |-> qs_pair(pieces[i])]
parse_qsl(query) ==
    qs_pairs(SelectSeq(Split(query, "&"), LAMBDA p : p # <<>>))

\* the dict parse_qs builds: the names (a set) and each name's values in order
qs_names(pairs) == {pairs[i][1] : i \in 1..Len(pairs)}
qs_second(mine) == [i \in 1..Len(mine) |-> mine[i][2]]
qs_values(pairs, k) == qs_second(SelectSeq(pairs, LAMBDA p : p[1] = k))

\* sorted(names): the names of a dict in increasing order
RECURSIVE SortedNames(_)
SortedNames(ks) ==
    IF ks = {} THEN <<>>
    ELSE LET m == CHOOSE k \in ks : \A o \in ks : ~StrLess(o, k)
         IN <<m>> \o SortedNames(ks \ {m})

\* urlencode({k: sorted(v) for k, v in sorted(params.items())}, doseq=True)
encode_values(k, vs) == Join([i \in 1..Len(vs) |-> k \o <<"=">> \o vs[i]], "&")
encode_items(pairs, names) ==
    Join([i \in 1..Len(names) |->
             encode_values(names[i], SortedStrs(qs_values(pairs, names[i])))], "&")
encode_sorted(pairs) == encode_items(pairs, SortedNames(qs_names(pairs)))
sorted_query(query) == encode_sorted(parse_qsl(query))

\* "path = parsed.path or '/'", then path.rstrip('/') when the path is not
\* '/' and ends with '/'
strip_path(path) ==
    IF path = <<>> THEN <<"/">>
    ELSE IF path # <<"/">> /\ EndsWithSlash(path) THEN RStripSlash(path)
    ELSE path

\* f"{scheme}://{netloc}{path}{'?' + query if query else ''}"
format_url(scheme, netloc, path, query) ==
    scheme \o <<":", "/", "/">> \o netloc \o path
        \o (IF query # <<>> THEN <<"?">> \o query ELSE <<>>)

normalize_parsed(parsed) ==
    format_url(Lower(parsed.scheme), Lower(parsed.netloc),
               strip_path(parsed.path), sorted_query(parsed.query))

\* URLNormalizer.normalize
normalize(url) == normalize_parsed(urlparse(url))

(***************************************************************************)
(* The URLs handed to the normalizer.                                      *)
(***************************************************************************)
RECURSIVE PathsOfLen(_)
PathsOfLen(n) ==
    IF n = 0 THEN {<<>>}
    ELSE IF n = 1 THEN {<<"/">>}
    ELSE {p \o <<c>> : p \in PathsOfLen(n - 1), c \in {"/", "b"}}

\* '', '/', '//', '/b', '///', '//b', '/b/', '/bb', ...
InputPaths == UNION {PathsOfLen(n) : n \in 0..MaxPathLen}

InputSchemes == {<<"h", "t", "t", "p">>, <<"H", "T", "T", "P">>}
InputHosts   == {<<"a">>, <<"A">>}
InputQueries == {<<>>,
                 <<"?">>,
                 <<"?", "p", "=", "1">>,
                 <<"?", "q", "=", "2", "&", "p", "=", "1">>,
                 <<"?", "q", "=", "2", "&", "q", "=", "1">>,
                 <<"?", "q">>,
                 <<"?", "p", "a", "g", "e", "=", "1">>,
                 <<"?", "q", "=", "2", "&", "p", "a", "g", "e", "=", "1">>,
                 <<"#", "x">>}

InputURLs ==
    {s \o <<":", "/", "/">> \o h \o p \o q :
        s \in InputSchemes, h \in InputHosts, p \in InputPaths, q \in InputQueries}

(***************************************************************************)
(* urljoin and URLNormalizer.validate.                                     *)
(***************************************************************************)
\* urlunparse((scheme, netloc, path, '', query, fragment))
with_fragment(u, fragment) ==
    IF fragment # <<>> THEN u \o <<"#">> \o fragment ELSE u
with_query(u, query) == IF query # <<>> THEN u \o <<"?">> \o query ELSE u
with_scheme(scheme, u) == IF scheme # <<>> THEN scheme \o <<":">> \o u ELSE u
with_netloc(netloc, path) ==
    IF netloc # <<>>
    THEN <<"/", "/">> \o netloc
           \o (IF path # <<>> /\ path[1] # "/" THEN <<"/">> ELSE <<>>) \o path
    ELSE path
urlunparse(p) ==
    with_fragment(with_query(with_scheme(p.scheme, with_netloc(p.netloc, p.path)),
                             p.query),
                  p.fragment)

\* urljoin(base, url) for the references of the modelled pages: an absolute
\* URL (its own netloc) or an absolute path on the base's host.  A reference
\* of another scheme is returned as it is; one of the base's scheme is put
\* together again from its parts.
join_parsed(base, url, b, r) ==
    IF url = <<>> THEN base
    ELSE IF r.scheme # <<>> /\ r.scheme # b.scheme THEN url
    ELSE IF r.netloc # <<>> THEN urlunparse([r EXCEPT !.scheme = b.scheme])
    ELSE urlunparse([r EXCEPT !.scheme = b.scheme, !.netloc = b.netloc])
urljoin(base, url) == join_parsed(base, url, urlparse(base), urlparse(url))

HttpPrefix  == <<"h", "t", "t", "p", ":", "/", "/">>
HttpsPrefix == <<"h", "t", "t", "p", "s", ":", "/", "/">>

\* URLNormalizer.validate(url, allowed_domain)
validate_parsed(url, parsed, allowed_domain) ==
    /\ url # <<>>
    /\ StartsWith(url, HttpPrefix) \/ StartsWith(url, HttpsPrefix)
    /\ Lower(parsed.netloc) = Lower(allowed_domain)
    /\ parsed.scheme # <<>>
    /\ parsed.netloc # <<>>
validate(url, allowed_domain) == validate_parsed(url, urlparse(url), allowed_domain)

(***************************************************************************)
(* The crawled web site: its URLs and the <a href> lists of its pages.     *)
(***************************************************************************)
Root       == HttpPrefix \o <<"a", "/">>                 \* http://a/
PageB      == HttpPrefix \o <<"a", "/", "b">>            \* http://a/b
PageBSlash == HttpPrefix \o <<"a", "/", "b", "/">>       \* http://a/b/
PageS      == HttpPrefix \o <<"a", "/", "p", "/", "s">>  \* http://a/p/s
External   == HttpPrefix \o <<"x", "/">>                 \* http://x/

\* the URLs of the crawled host
SiteURLs == {Root, PageB, PageBSlash, PageS}

\* the href lists a page may carry, in document order
LinkLists == {<<>>, <<Root, PageB, PageS>>, <<PageB, PageBSlash, External>>}

\* a site gives every URL of the host the links of the page served there;
\* /b and /b/ name one resource and are served the same page
Sites == {s \in [SiteURLs -> LinkLists] : s[PageBSlash] = s[PageB]}

(***************************************************************************)
(* State.                                                                  *)
(***************************************************************************)
VARIABLES
    nIn,      \* normalizer: the URL given
    nOnce,    \* normalizer: normalize(url)
    nTwice,   \* normalizer: normalize(normalize(url))
    nStep,    \* normalizer: how many times normalize has been applied (0..2)
    site,     \* the site served to the crawler: URL -> href list
    p_max_pages,    \* ProductionCrawler.max_pages
    p_max_retries,  \* ProductionCrawler.max_retries
    p_visited,      \* ProductionCrawler.visited
    p_queue,        \* ProductionCrawler.queue
    p_stats,        \* ProductionCrawler.stats (its three counters)
    p_http_errors,  \* ProductionCrawler.stats['http_errors']
    p_pages,        \* CrawlerDatabase: the rows of table pages
    p_error_log,    \* CrawlerDatabase: the rows of table error_log
    p_state,        \* where run() is: "loop", "fetch", "done", "raised"
    p_url,          \* the URL fetch() was called with
    p_attempt,      \* the attempt index of fetch()'s for loop
    p_requests,     \* HTTP requests issued by the current call of fetch()
    p_slept,        \* the delay of the last asyncio.sleep of this fetch() call
    p_outcomes,     \* the outcomes this fetch() call has retried after
    p_retry_after,  \* the Retry-After header of the last 429 response of
                    \* this fetch() call
    faults,         \* requests of this run that have failed so far
    a_max_pages,    \* ProfessionalArchiver.max_pages
    a_max_depth,    \* ProfessionalArchiver.max_depth
    a_visited,      \* ProfessionalArchiver.visited: URL -> depth
    a_queue,        \* ProfessionalArchiver.queue: <<URL, depth>> entries
    a_db,           \* the archive database: its committed tables
    a_conn,         \* ProfessionalArchiver.conn: the tables with its open
                    \* transaction's writes
    a_state,        \* where archive() is: "start", "loop", "finalize", "done"
    a_session_id,   \* ProfessionalArchiver.session_id (the run's number)
    a_fetched,      \* the page URLs this run has requested, in order
    a_archived,     \* the URIs that had a Page Record when this run started
    a_edition,      \* the edition of the site's documents being served
    a_sitemap,      \* the URLs of the site's sitemap.xml, in document order
    a_faults,       \* failed requests and interruptions of the archiver so far
    x_tasks,        \* the download_and_save_asset coroutines of one gather
    x_db,           \* the asset tables: committed rows
    x_conn,         \* AssetExtractor.conn: the tables with its open
                    \* transaction's writes
    x_hashes,       \* AssetExtractor.downloaded_hashes
    x_batches,      \* the batches gathered so far
    x_faults,       \* downloads and database writes that have failed so far
    r_content,      \* the lines of the robots.txt given to parse_robots_txt
    r_url,          \* the URL can_fetch is asked about
    r_agent,        \* RobotsCompliance: the user agent of the last matching
                    \* User-agent line (current_user_agent)
    r_crawl_delay,  \* RobotsCompliance.crawl_delay
    r_request_rate, \* RobotsCompliance.request_rate (<<>> for None)
    r_allowed,      \* what can_fetch returned
    r_state,        \* "loaded", "parsed", "raised", "checked"
    f_m,            \* FullCrawler.m: the page budget
    f_v,            \* FullCrawler.v: the visited URLs
    f_q,            \* FullCrawler.q: the frontier
    f_pages,        \* the pages table of FullDB
    f_state,        \* where FullCrawler.run is: "loop", "done"
    f_faults,       \* requests of this run that have failed so far
    s_pages,        \* the pages table of a CrawlerDatabase
    s_full_pages,   \* the pages table of a FullDB
    s_web_pages,    \* the pages table of a WebsiteDatabase
    s_saves,        \* the store operations carried out so far
    d_crawl_delay,  \* RobotsCompliance.crawl_delay of the v4 archiver, in seconds
    d_last_crawl_time, \* RobotsCompliance.last_crawl_time
    d_clock,        \* time.time(), in seconds
    d_sent,         \* the requests sent to the crawled host, in the order of their start
    d_state,        \* position of the v4 archiver between its requests
    d_assets,       \* assets of the fetched page that are still to be downloaded
    c_max_pages,    \* ProfessionalArchiver.max_pages of a long run
    c_visited,      \* len(self.visited) of a long run
    c_queue,        \* len(self.queue) of a long run
    c_stored,       \* total_urls_processed in the crawl_state row of the session
    c_state,        \* where archive() is in a long run
    w_url,          \* URLRewriter: the URL handed to _convert_url
    w_out,          \* URLRewriter: what _convert_url returned
    w_step,         \* URLRewriter: 0 before the call, 1 after
    h_doc,          \* URLRewriter: the document handed to _process_html or _process_css
    h_bs4,          \* URLRewriter: bs4_available
    h_modified,     \* URLRewriter: the flag the call returned
    h_result,       \* URLRewriter: the content the call returned
    h_step,         \* URLRewriter: 0 before the call, 1 after _process_html, 2 after _process_css
    g_queue,        \* archive(): the number of frontier entries
    g_visited,      \* archive(): the number of visited URLs
    g_fetching,     \* the _fetch_page calls in progress
    g_assets,       \* _download_assets: the assets of the page not yet in a batch
    g_inflight,     \* _download_assets: the downloads of the batch that have not finished
    g_state,        \* where the crawl loop is
    k_files,        \* asset files of the archive: path -> bytes
    k_assets,       \* the assets table of the v3/v4 archive
    k_downloads,    \* the asset downloads made so far
    y_tasks,        \* FullCrawler.download_assets: the gathered _download_single tasks
    y_file_map,     \* FullCrawler.file_map (its keys)
    y_fetches,      \* FullCrawler: the asset URLs requested so far, in order
    y_pages         \* FullCrawler: the pages whose assets were downloaded

normVars == <<nIn, nOnce, nTwice, nStep>>
pcVars == <<p_max_pages, p_max_retries, p_visited, p_queue, p_stats,
            p_http_errors, p_pages, p_error_log, p_state, p_url, p_attempt,
            p_requests, p_slept, p_outcomes, p_retry_after, faults>>
archVars == <<a_max_pages, a_max_depth, a_visited, a_queue, a_db, a_conn,
              a_state, a_session_id, a_fetched, a_archived, a_edition,
              a_sitemap, a_faults>>
assetVars == <<x_tasks, x_db, x_conn, x_hashes, x_batches, x_faults>>
robotsVars == <<r_content, r_url, r_agent, r_crawl_delay, r_request_rate,
                r_allowed, r_state>>
fullVars == <<f_m, f_v, f_q, f_pages, f_state, f_faults>>
storeVars == <<s_pages, s_full_pages, s_web_pages, s_saves>>
politeVars == <<d_crawl_delay, d_last_crawl_time, d_clock, d_sent, d_state, d_assets>>
checkpointVars == <<c_max_pages, c_visited, c_queue, c_stored, c_state>>
rewriteVars == <<w_url, w_out, w_step>>
docVars == <<h_doc, h_bs4, h_modified, h_result, h_step>>
concVars == <<g_queue, g_visited, g_fetching, g_assets, g_inflight, g_state>>
fileVars == <<k_files, k_assets, k_downloads>>
gatherVars == <<y_tasks, y_file_map, y_fetches, y_pages>>
vars == <<nIn, nOnce, nTwice, nStep, site,
          p_max_pages, p_max_retries, p_visited, p_queue, p_stats,
          p_http_errors, p_pages, p_error_log, p_state, p_url, p_attempt,
          p_requests, p_slept, p_outcomes, p_retry_after, faults,
          a_max_pages, a_max_depth, a_visited, a_queue, a_db, a_conn,
          a_state, a_session_id, a_fetched, a_archived, a_edition, a_sitemap,
          a_faults,
          x_tasks, x_db, x_conn, x_hashes, x_batches, x_faults,
          r_content, r_url, r_agent, r_crawl_delay, r_request_rate, r_allowed,
          r_state,
          f_m, f_v, f_q, f_pages, f_state, f_faults,
          s_pages, s_full_pages, s_web_pages, s_saves,
          d_crawl_delay, d_last_crawl_time, d_clock, d_sent, d_state, d_assets,
          c_max_pages, c_visited, c_queue, c_stored, c_state,
          w_url, w_out, w_step,
          h_doc, h_bs4, h_modified, h_result, h_step,
          g_queue, g_visited, g_fetching, g_assets, g_inflight, g_state,
          k_files, k_assets, k_downloads,
          y_tasks, y_file_map, y_fetches, y_pages>>

\* the state of a component that a specification does not run
NormIdle ==
    /\ nIn = <<>>
    /\ nOnce = <<>>
    /\ nTwice = <<>>
    /\ nStep = 0

\* no Retry-After header
NoRetryAfter == [present |-> FALSE, integer |-> FALSE, seconds |-> 0]

PCIdle ==
    /\ p_max_pages = 0
    /\ p_max_retries = 0
    /\ p_visited = {}
    /\ p_queue = <<>>
    /\ p_stats = [total_fetched |-> 0, total_errors |-> 0, total_retries |-> 0]
    /\ p_http_errors = <<>>
    /\ p_pages = <<>>
    /\ p_error_log = <<>>
    /\ p_state = "idle"
    /\ p_url = <<>>
    /\ p_attempt = 0
    /\ p_requests = 0
    /\ p_slept = 0
    /\ p_outcomes = {}
    /\ p_retry_after = NoRetryAfter
    /\ faults = 0

ArchIdle ==
    /\ a_max_pages = 0
    /\ a_max_depth = 0
    /\ a_visited = <<>>
    /\ a_queue = <<>>
    /\ a_db = <<>>
    /\ a_conn = <<>>
    /\ a_state = "idle"
    /\ a_session_id = 0
    /\ a_fetched = <<>>
    /\ a_archived = {}
    /\ a_edition = 0
    /\ a_sitemap = <<>>
    /\ a_faults = 0

AssetsIdle ==
    /\ x_tasks = <<>>
    /\ x_db = <<>>
    /\ x_conn = <<>>
    /\ x_hashes = {}
    /\ x_batches = 0
    /\ x_faults = 0

RobotsIdle ==
    /\ r_content = <<>>
    /\ r_url = <<>>
    /\ r_agent = <<>>
    /\ r_crawl_delay = 0
    /\ r_request_rate = <<>>
    /\ r_allowed = TRUE
    /\ r_state = "idle"

FullIdle ==
    /\ f_m = 0
    /\ f_v = {}
    /\ f_q = <<>>
    /\ f_pages = <<>>
    /\ f_state = "idle"
    /\ f_faults = 0

StoreIdle ==
    /\ s_pages = <<>>
    /\ s_full_pages = <<>>
    /\ s_web_pages = <<>>
    /\ s_saves = -1

PoliteIdle ==
    /\ d_crawl_delay = 0
    /\ d_last_crawl_time = 0
    /\ d_clock = 0
    /\ d_sent = <<>>
    /\ d_state = "idle"
    /\ d_assets = 0

CheckpointIdle ==
    /\ c_max_pages = 0
    /\ c_visited = 0
    /\ c_queue = 0
    /\ c_stored = 0
    /\ c_state = "idle"

RewriteIdle ==
    /\ w_url = <<>>
    /\ w_out = <<>>
    /\ w_step = 0

DocIdle ==
    /\ h_doc = [head |-> FALSE, base |-> FALSE, refs |-> <<>>]
    /\ h_bs4 = FALSE
    /\ h_modified = FALSE
    /\ h_result = [head |-> FALSE, base |-> FALSE, refs |-> <<>>]
    /\ h_step = 0

ConcIdle ==
    /\ g_queue = 0
    /\ g_visited = 0
    /\ g_fetching = 0
    /\ g_assets = 0
    /\ g_inflight = 0
    /\ g_state = "idle"

FilesIdle ==
    /\ k_files = <<>>
    /\ k_assets = <<>>
    /\ k_downloads = 0

GatherIdle ==
    /\ y_tasks = <<>>
    /\ y_file_map = {}
    /\ y_fetches = <<>>
    /\ y_pages = 0

SiteIdle == site = <<>>

(***************************************************************************)
(* SpecNorm: normalize applied to a URL, then to its own result.           *)
(***************************************************************************)
NormInit ==
    /\ nIn \in InputURLs
    /\ nOnce = <<>>
    /\ nTwice = <<>>
    /\ nStep = 0
    /\ SiteIdle
    /\ PCIdle
    /\ ArchIdle
    /\ AssetsIdle
    /\ RobotsIdle
    /\ FullIdle
    /\ StoreIdle
    /\ PoliteIdle
    /\ CheckpointIdle
    /\ RewriteIdle
    /\ DocIdle
    /\ ConcIdle
    /\ FilesIdle
    /\ GatherIdle

NormalizeOnce ==
    /\ nStep = 0
    /\ nIn # <<>>
    /\ nOnce' = normalize(nIn)
    /\ nStep' = 1
    /\ UNCHANGED <<nIn, nTwice, site, pcVars, archVars, assetVars, robotsVars, fullVars, storeVars, politeVars, checkpointVars, rewriteVars, docVars, concVars, fileVars, gatherVars>>

NormalizeTwice ==
    /\ nStep = 1
    /\ nTwice' = normalize(nOnce)
    /\ nStep' = 2
    /\ UNCHANGED <<nIn, nOnce, site, pcVars, archVars, assetVars, robotsVars, fullVars, storeVars, politeVars, checkpointVars, rewriteVars, docVars, concVars, fileVars, gatherVars>>

NormNext == NormalizeOnce \/ NormalizeTwice

SpecNorm == NormInit /\ [][NormNext]_vars

\* C10: normalize is idempotent: normalizing the result of normalize gives
\* the same URL again, for every URL (several trailing slashes included).
C10_NormalizeIdempotent == nStep = 2 => nTwice = nOnce

(***************************************************************************)
(* SpecPC: ProductionCrawler.run and ProductionCrawler.fetch.              *)
(***************************************************************************)
\* the statuses ProductionCrawler.fetch counts in stats['http_errors']
ErrorStatuses == {400, 403, 404}

\* the Retry-After values (seconds) a 429 response may carry
RetryAfterSeconds == {0, 7}

\* the Retry-After header of a 429 response: absent, delay-seconds, or an
\* HTTP date (which int() rejects)
RetryAfterHeaders ==
    {[present |-> FALSE, integer |-> FALSE, seconds |-> 0],
     [present |-> TRUE, integer |-> FALSE, seconds |-> 0]}
    \cup {[present |-> TRUE, integer |-> TRUE, seconds |-> n] :
             n \in RetryAfterSeconds}

\* a response body: empty, or a document with the anchors of the page
Body(anchors) == [empty |-> FALSE, anchors |-> anchors]
EmptyBody == [empty |-> TRUE, anchors |-> <<>>]

\* CrawlerDatabase.save_page: INSERT OR REPLACE on the UNIQUE column url
save_page(pages, url, html, status_code) ==
    SelectSeq(pages, LAMBDA r : r.url # url)
        \o <<[url |-> url, html |-> html, status_code |-> status_code]>>

\* CrawlerDatabase.log_error (status_code 0 stands for None)
log_error(log, url, error_type, status_code, attempt_count) ==
    Append(log, [url |-> url, error_type |-> error_type,
                 status_code |-> status_code, attempt_count |-> attempt_count])

\* ProductionCrawler.parse_links: every href joined to the base, normalized,
\* and kept when validate accepts it for the crawler's domain
normalized_links(anchors, base_url) ==
    [i \in 1..Len(anchors) |-> normalize(urljoin(base_url, anchors[i]))]
parse_links(html, base_url, domain) ==
    SelectSeq(normalized_links(html.anchors, base_url),
              LAMBDA u : validate(u, domain))

\* run(): "for link in links: if link not in visited and link not in queue:
\* queue.append(link)"
RECURSIVE enqueue_links(_, _, _)
enqueue_links(queue, visited, links) ==
    IF links = <<>> THEN queue
    ELSE LET l == Head(links)
             present == l \in visited \/ \E i \in 1..Len(queue) : queue[i] = l
         IN enqueue_links(IF present THEN queue ELSE Append(queue, l),
                          visited, Tail(links))

\* ProductionCrawler.start_url and ProductionCrawler.domain
p_start_url == Root
p_domain == urlparse(p_start_url).netloc

\* the crawler ProductionCrawler.__init__ sets up, for a site of the given
\* family and a page budget of the given range
PCStart(sites, budgets) ==
    /\ NormIdle
    /\ ArchIdle
    /\ AssetsIdle
    /\ RobotsIdle
    /\ FullIdle
    /\ StoreIdle
    /\ PoliteIdle
    /\ CheckpointIdle
    /\ RewriteIdle
    /\ DocIdle
    /\ ConcIdle
    /\ FilesIdle
    /\ GatherIdle
    /\ site \in sites
    /\ p_max_pages \in budgets
    /\ p_max_retries \in 0..MaxRetries
    /\ p_visited = {}
    /\ p_queue = <<p_start_url>>
    /\ p_stats = [total_fetched |-> 0, total_errors |-> 0, total_retries |-> 0]
    /\ p_http_errors = [s \in ErrorStatuses |-> 0]
    /\ p_pages = <<>>
    /\ p_error_log = <<>>
    /\ p_state = "loop"
    /\ p_url = <<>>
    /\ p_attempt = 0
    /\ p_requests = 0
    /\ p_slept = 0
    /\ p_outcomes = {}
    /\ p_retry_after = NoRetryAfter
    /\ faults = 0

PCInit == PCStart(Sites, 1..MaxPages)

pcConfig == <<normVars, archVars, assetVars, robotsVars, fullVars, storeVars, politeVars, checkpointVars, rewriteVars, docVars, concVars, fileVars, gatherVars, site, p_max_pages,
             p_max_retries>>

\* run(): one pass of the while loop up to the call of fetch
Dequeue ==
    /\ p_state = "loop"
    /\ p_queue # <<>>
    /\ Cardinality(p_visited) < p_max_pages
    /\ \E normalized_url \in {normalize(Head(p_queue))} :
          /\ p_queue' = Tail(p_queue)
          /\ IF normalized_url \in p_visited
             THEN UNCHANGED <<p_visited, p_state, p_url, p_attempt, p_requests,
                              p_slept, p_outcomes, p_retry_after>>
             ELSE /\ p_visited' = p_visited \cup {normalized_url}
                  /\ p_state' = "fetch"
                  /\ p_url' = normalized_url
                  /\ p_attempt' = 0
                  /\ p_requests' = 0
                  /\ p_slept' = 0
                  /\ p_outcomes' = {}
                  /\ p_retry_after' = NoRetryAfter
    /\ UNCHANGED <<pcConfig, p_stats, p_http_errors, p_pages, p_error_log, faults>>

\* run(): the while condition fails and the summary is returned
Finish ==
    /\ p_state = "loop"
    /\ ~(p_queue # <<>> /\ Cardinality(p_visited) < p_max_pages)
    /\ p_state' = "done"
    /\ UNCHANGED <<pcConfig, p_visited, p_queue, p_stats, p_http_errors, p_pages,
                   p_error_log, p_url, p_attempt, p_requests, p_slept, p_outcomes, p_retry_after, faults>>

\* fetch() is inside its for loop and issues session.get
Attempting ==
    /\ p_state = "fetch"
    /\ p_attempt < p_max_retries
    /\ p_requests' = p_requests + 1

\* the request is answered with status 200 or a redirect status
Succeeding == Attempting /\ UNCHANGED faults

\* the request fails or is answered with an error status
Failing ==
    /\ Attempting
    /\ faults < MaxFaults
    /\ faults' = faults + 1

\* fetch() returned html to run(), which parses and enqueues its links
Returned(html) ==
    /\ p_state' = "loop"
    /\ p_queue' = IF html.empty THEN p_queue
                  ELSE enqueue_links(p_queue, p_visited,
                                     parse_links(html, p_url, p_domain))

\* fetch() returned None to run()
ReturnedNone ==
    /\ p_state' = "loop"
    /\ UNCHANGED p_queue

\* status 200 (and the redirect statuses): count, save, return the html
FetchPage(status, html) ==
    /\ Succeeding
    /\ p_stats' = [p_stats EXCEPT !.total_fetched = @ + 1]
    /\ p_pages' = save_page(p_pages, p_url, html, status)
    /\ Returned(html)
    /\ UNCHANGED <<pcConfig, p_visited, p_http_errors, p_error_log, p_url,
                   p_attempt, p_slept, p_outcomes, p_retry_after>>

\* the bodies the server may send for a URL: nothing, or the page there
Bodies(url) == {EmptyBody, Body(site[url])}

FetchOk ==
    /\ p_state = "fetch"
    /\ \E html \in Bodies(p_url) : FetchPage(200, html)

FetchRedirect ==
    /\ p_state = "fetch"
    /\ \E html \in Bodies(p_url) : FetchPage(301, html)

\* the retry branch without its "continue": the same attempt is made again
SleepAndRepeat(d) ==
    /\ p_slept' = d
    /\ UNCHANGED <<p_attempt, p_state, p_queue>>

\* "await asyncio.sleep(d); continue"
SleepAndContinue(d) ==
    /\ p_slept' = d
    /\ p_attempt' = p_attempt + 1
    /\ UNCHANGED <<p_state, p_queue>>

\* "int(response.headers.get('Retry-After', 2**attempt))" when int() accepts
\* the header
retry_after(header, attempt) ==
    IF header.present THEN header.seconds ELSE 2^attempt

\* status 429: int(Retry-After) when the header is present, else 2**attempt
FetchRateLimited ==
    /\ Failing
    /\ \E header \in {h \in RetryAfterHeaders : h.present => h.integer} :
          /\ p_retry_after' = header
          /\ SleepAndContinue(retry_after(header, p_attempt))
    /\ p_outcomes' = p_outcomes \cup {"HTTP_429"}
    /\ UNCHANGED <<pcConfig, p_visited, p_stats, p_http_errors, p_pages,
                   p_error_log, p_url>>

\* an exception reaching "except Exception": counted, logged and raised again
Raise ==
    /\ p_stats' = [p_stats EXCEPT !.total_errors = @ + 1]
    /\ p_error_log' = log_error(p_error_log, p_url, "UNEXPECTED_ERROR", 0, 1)
    /\ p_state' = "raised"
    /\ UNCHANGED <<pcConfig, p_visited, p_queue, p_http_errors, p_pages, p_url,
                   p_attempt, p_slept, p_outcomes>>

\* status 429 whose Retry-After is not an integer (an HTTP date): int() raises
\* ValueError inside the try block
FetchBadRetryAfter ==
    /\ Failing
    /\ \E header \in {h \in RetryAfterHeaders : h.present /\ ~h.integer} :
          p_retry_after' = header
    /\ Raise

\* any other exception of session.get or response.text
FetchUnexpected == Failing /\ Raise /\ UNCHANGED p_retry_after

\* status >= 500
FetchServerError ==
    /\ Failing
    /\ SleepAndContinue(2^p_attempt)
    /\ p_outcomes' = p_outcomes \cup {"HTTP_5XX"}
    /\ UNCHANGED p_retry_after
    /\ UNCHANGED <<pcConfig, p_visited, p_stats, p_http_errors, p_pages,
                   p_error_log, p_url>>

\* status 404 and 403: counted by status and logged
FetchNotFoundOrForbidden ==
    /\ Failing
    /\ \E st \in {403, 404} :
          /\ p_http_errors' = [p_http_errors EXCEPT ![st] = @ + 1]
          /\ p_error_log' = log_error(p_error_log, p_url,
                                IF st = 404 THEN "HTTP_404" ELSE "HTTP_403_FORBIDDEN",
                                st, 1)
    /\ ReturnedNone
    /\ UNCHANGED <<pcConfig, p_visited, p_stats, p_pages, p_url, p_attempt, p_slept, p_outcomes, p_retry_after>>

\* any other status: counted by status, not logged
FetchOtherStatus ==
    /\ Failing
    /\ p_http_errors' = [p_http_errors EXCEPT ![400] = @ + 1]
    /\ ReturnedNone
    /\ UNCHANGED <<pcConfig, p_visited, p_stats, p_pages, p_error_log, p_url,
                   p_attempt, p_slept, p_outcomes, p_retry_after>>

\* asyncio.TimeoutError and aiohttp.ClientConnectorError: logged at every
\* attempt, slept and retried while attempts remain
FetchTransientError ==
    /\ Failing
    /\ p_stats' = [p_stats EXCEPT !.total_retries = @ + 1]
    /\ \E error_type \in {"TIMEOUT", "CONNECTION_ERROR"} :
          /\ p_error_log' = log_error(p_error_log, p_url, error_type, 0,
                                      p_attempt + 1)
          /\ p_outcomes' = p_outcomes \cup {error_type}
    /\ UNCHANGED p_retry_after
    /\ p_slept' = IF p_attempt < p_max_retries - 1 THEN 2^p_attempt ELSE p_slept
    /\ p_attempt' = p_attempt + 1
    /\ UNCHANGED <<pcConfig, p_visited, p_queue, p_http_errors, p_pages, p_state, p_url>>

\* aiohttp.ClientSSLError and any other aiohttp.ClientError: no retry
FetchFatalError ==
    /\ Failing
    /\ p_stats' = [p_stats EXCEPT !.total_errors = @ + 1]
    /\ \E error_type \in {"SSL_ERROR", "CLIENT_ERROR"} :
          p_error_log' = log_error(p_error_log, p_url, error_type, 0, 1)
    /\ ReturnedNone
    /\ UNCHANGED <<pcConfig, p_visited, p_http_errors, p_pages, p_url, p_attempt, p_slept, p_outcomes, p_retry_after>>

\* the statistics when running out of attempts is not counted
exhausted_uncounted(stats) == stats

\* "self.stats['total_errors'] += 1" after the for loop
exhausted(stats) == [stats EXCEPT !.total_errors = @ + 1]

\* the for loop ran out of attempts
FetchExhausted ==
    /\ p_state = "fetch"
    /\ p_attempt >= p_max_retries
    /\ p_stats' = exhausted(p_stats)
    /\ p_error_log' = log_error(p_error_log, p_url, "MAX_RETRIES_EXCEEDED", 0, 1)
    /\ ReturnedNone
    /\ UNCHANGED <<pcConfig, p_visited, p_http_errors, p_pages, p_url, p_attempt,
                   p_requests, p_slept, p_outcomes, p_retry_after, faults>>

PCNext ==
    \/ Dequeue
    \/ Finish
    \/ FetchOk
    \/ FetchRedirect
    \/ FetchRateLimited
    \/ FetchBadRetryAfter
    \/ FetchServerError
    \/ FetchNotFoundOrForbidden
    \/ FetchOtherStatus
    \/ FetchTransientError
    \/ FetchFatalError
    \/ FetchUnexpected
    \/ FetchExhausted

SpecPC == PCInit /\ [][PCNext]_vars

\* the Error Records and the Page Records of a URL
errors_of(url) == SelectSeq(p_error_log, LAMBDA r : r.url = url)
pages_of(url) == SelectSeq(p_pages, LAMBDA r : r.url = url)

\* C5: one call of ProductionCrawler.fetch issues at most max_retries HTTP
\* requests for its URL, whatever the attempts' outcomes are.
C5_RetryBound == p_requests <= p_max_retries

\* a call of fetch that returned after using its whole budget of two requests
C5_Witness ==
    /\ p_state = "loop"
    /\ p_max_retries = 2
    /\ p_requests = p_max_retries

\* fetch() returned because its for loop ran out of attempts, and every
\* attempt failed with a 5xx status, a timeout or a connection error
ExhaustedByTransientErrors ==
    /\ p_state \in {"loop", "done"}
    /\ p_max_retries > 0
    /\ p_attempt >= p_max_retries
    /\ p_outcomes \subseteq {"HTTP_5XX", "TIMEOUT", "CONNECTION_ERROR"}

\* C9: a URL whose every attempt fails with a transient error until the
\* budget is exhausted has exactly one Error Record and no Page Record, and
\* when all the attempts were answered 5xx that record's kind is
\* HTTP_SERVER_ERROR.
C9_OneErrorRecord ==
    ExhaustedByTransientErrors =>
        /\ Len(errors_of(p_url)) = 1
        /\ pages_of(p_url) = <<>>
        /\ p_outcomes = {"HTTP_5XX"} =>
               errors_of(p_url)[1].error_type = "HTTP_SERVER_ERROR"


(***************************************************************************)
(* SpecArch: ProfessionalArchiver.archive, the crawl loop of the v4        *)
(* archiver (the v2 loop is the same without the checkpoints), on a site   *)
(* whose pages carry links and no assets, without robots.txt and sitemap.  *)
(* The archiver object is the one __init__ sets up at lines 149-156.       *)
(***************************************************************************)
\* largest max_pages an archiver is configured with
MaxArchivePages == 3
\* largest max_depth an archiver is configured with
MaxDepth == 1
\* most failures (failed requests, interruptions of a run) the archiver meets
MaxArchiveFaults == 1

\* the sitemap.xml of the site: none (or an empty one), or a list of URLs
Sitemaps == {<<>>, <<PageS>>, <<PageB, External>>}

\* archive(): "checkpoint_interval = 50"
checkpoint_interval == 50

\* ProfessionalArchiver.start_url and ProfessionalArchiver.domain
a_start_url == Root
a_domain == Lower(urlparse(a_start_url).netloc)

\* ProfessionalArchiver._is_same_domain
_is_same_domain(url) == Lower(urlparse(url).netloc) = a_domain

\* the document served at a URL: /b and /b/ are served the same bytes, and
\* the bytes of every document differ from one edition of the site to the next
Resource(url) == IF url = PageBSlash THEN PageB ELSE url
page_html(url) ==
    [text |-> Resource(url),
     edition |-> a_edition,
     anchors |-> IF url \in DOMAIN site THEN site[url] ELSE <<>>]

\* hashlib.sha256(...).hexdigest(): equal digests only for equal bytes
sha256(content) == <<"sha256", content>>

\* the tables _init_db creates
EmptyTables ==
    [cdx_index |-> <<>>, pages |-> <<>>, links |-> <<>>, error_log |-> <<>>,
     crawl_state |-> <<>>]

\* _init_db: INSERT OR REPLACE INTO crawl_state on the UNIQUE session_id
\* (last_url_processed -1 stands for NULL)
init_crawl_state(t, session_id) ==
    [t EXCEPT !.crawl_state =
        SelectSeq(@, LAMBDA r : r.session_id # session_id)
            \o <<[session_id |-> session_id, last_url_processed |-> -1,
                  total_urls_processed |-> 0, status |-> "running"]>>]

\* max(self.visited, default=...) over the keys of visited
max_key(visited) ==
    CHOOSE u \in DOMAIN visited :
        \A w \in DOMAIN visited : w = u \/ StrLess(w, u)

\* _save_checkpoint: UPDATE crawl_state ... WHERE session_id = ?
_save_checkpoint(t, session_id, visited) ==
    [t EXCEPT !.crawl_state =
        [i \in 1..Len(@) |->
            IF @[i].session_id = session_id
            THEN [@[i] EXCEPT
                    !.last_url_processed =
                        IF DOMAIN visited = {} THEN -1
                        ELSE visited[max_key(visited)],
                    !.total_urls_processed = Cardinality(DOMAIN visited),
                    !.status = "running"]
            ELSE @[i]]]

\* _finalize: UPDATE crawl_state SET status = 'completed'
_finalize(t, session_id) ==
    [t EXCEPT !.crawl_state =
        [i \in 1..Len(@) |->
            IF @[i].session_id = session_id
            THEN [@[i] EXCEPT !.status = "completed"]
            ELSE @[i]]]

\* _log_error: INSERT INTO error_log
_log_error(t, url, error_type) ==
    [t EXCEPT !.error_log = Append(@, [url |-> url, error_type |-> error_type])]


\* _process_page, "Extract links": every href joined to the page's URL; a
\* link on the archiver's domain whose target is not in visited is inserted
\* into links and appended to the queue
RECURSIVE extract_links(_, _, _, _, _, _)
extract_link(links, queue, url, depth, anchors, visited, href) ==
    IF _is_same_domain(href) /\ href \notin DOMAIN visited
    THEN extract_links(Append(links, [from_uri |-> url, to_uri |-> href,
                                      link_type |-> "page"]),
                       Append(queue, <<href, depth + 1>>),
                       url, depth, Tail(anchors), visited)
    ELSE extract_links(links, queue, url, depth, Tail(anchors), visited)
extract_links(links, queue, url, depth, anchors, visited) ==
    IF anchors = <<>> THEN [links |-> links, queue |-> queue]
    ELSE extract_link(links, queue, url, depth, anchors, visited,
                      urljoin(url, Head(anchors)))

\* the rows _process_page inserts for a page
cdx_row(url, html) ==
    [uri |-> url, status_code |-> 200, payload_digest |-> sha256(html)]
page_row(url, depth) == [uri |-> url, depth |-> depth]

\* _process_page after its two inserts were committed: the link rows are
\* inserted and committed
store_links(conn, extracted) ==
    [conn |-> [conn EXCEPT !.links = extracted.links],
     db |-> [conn EXCEPT !.links = extracted.links],
     queue |-> extracted.queue]

\* _process_page: INSERT INTO cdx_index (payload_digest UNIQUE), INSERT INTO
\* pages (uri UNIQUE), commit; "except sqlite3.IntegrityError: return" leaves
\* the transaction open
_process_page(conn, db, queue, visited, html, url, depth) ==
    IF \E i \in 1..Len(conn.cdx_index) :
           conn.cdx_index[i].payload_digest = sha256(html)
    THEN [conn |-> conn, db |-> db, queue |-> queue]
    ELSE IF \E i \in 1..Len(conn.pages) : conn.pages[i].uri = url
    THEN [conn |-> [conn EXCEPT !.cdx_index = Append(@, cdx_row(url, html))],
          db |-> db, queue |-> queue]
    ELSE store_links([conn EXCEPT !.cdx_index = Append(@, cdx_row(url, html)),
                                  !.pages = Append(@, page_row(url, depth))],
                     extract_links(conn.links, queue, url, depth, html.anchors,
                                   visited))

\* the archiver as a construction that has its session id when _init_db runs
\* leaves it (SpecConstruct follows __init__ as it is written), for a site of
\* the given family
ArchStart(sites) ==
    /\ NormIdle
    /\ PCIdle
    /\ AssetsIdle
    /\ RobotsIdle
    /\ FullIdle
    /\ StoreIdle
    /\ PoliteIdle
    /\ CheckpointIdle
    /\ RewriteIdle
    /\ DocIdle
    /\ ConcIdle
    /\ FilesIdle
    /\ GatherIdle
    /\ site \in sites
    /\ a_max_pages \in 1..MaxArchivePages
    /\ a_max_depth \in 0..MaxDepth
    /\ a_visited = <<>>
    /\ a_queue = <<<<a_start_url, 0>>>>
    /\ a_db = init_crawl_state(EmptyTables, 1)
    /\ a_conn = a_db
    /\ a_state = "start"
    /\ a_session_id = 1
    /\ a_fetched = <<>>
    /\ a_archived = {}
    /\ a_edition = 0
    /\ a_sitemap \in Sitemaps
    /\ a_faults = 0

ArchInit == ArchStart(Sites)

archSetup == <<normVars, pcVars, assetVars, robotsVars, fullVars, storeVars, politeVars, checkpointVars, rewriteVars, docVars, concVars, fileVars, gatherVars, site,
              a_max_pages, a_max_depth, a_sitemap>>
archConfig == <<archSetup, a_edition>>

\* archive(): "for url in sitemap_urls[:self.max_pages]: if url not in
\* self.visited: self.queue.append((url, 1))"
sitemap_entries(sitemap_urls) ==
    [i \in 1..Len(sitemap_urls) |-> <<sitemap_urls[i], 1>>]
seed_queue(queue, sitemap_urls, max_pages, visited) ==
    queue \o SelectSeq(sitemap_entries(
                           SubSeq(sitemap_urls, 1,
                                  IF Len(sitemap_urls) < max_pages
                                  THEN Len(sitemap_urls) ELSE max_pages)),
                       LAMBDA e : e[1] \notin DOMAIN visited)

\* archive() up to its crawl loop: SitemapExtractor.fetch_sitemap and the
\* seeding of the frontier
ArchiveSeed ==
    /\ a_state = "start"
    /\ a_queue' = seed_queue(a_queue, a_sitemap, a_max_pages, a_visited)
    /\ a_state' = "loop"
    /\ UNCHANGED <<archConfig, a_visited, a_db, a_conn, a_session_id,
                   a_fetched, a_archived, a_faults>>

\* the loop condition without its page budget
InLoopUnbudgeted ==
    /\ a_state = "loop"
    /\ a_queue # <<>>

\* "while self.queue and len(self.visited) < self.max_pages"
InLoop ==
    /\ a_state = "loop"
    /\ a_queue # <<>>
    /\ Cardinality(DOMAIN a_visited) < a_max_pages

\* the URL of the entry a pop from the other end of the queue would give
a_url_last == a_queue[Len(a_queue)][1]

\* the depth of the entry a pop from the other end of the queue would give
a_depth_last == a_queue[Len(a_queue)][2]

\* "url, depth = self.queue.pop(0)"
a_url == Head(a_queue)[1]
a_depth == Head(a_queue)[2]

\* the depth test when it lets every depth pass
too_deep_never(depth) == FALSE

\* "depth > self.max_depth"
too_deep(depth) == depth > a_max_depth

\* "if url in self.visited or depth > self.max_depth: continue"
ArchiveSkip ==
    /\ InLoop
    /\ a_url \in DOMAIN a_visited \/ too_deep(a_depth)
    /\ a_queue' = Tail(a_queue)
    /\ UNCHANGED <<archConfig, a_visited, a_db, a_conn, a_state, a_session_id,
                   a_fetched, a_archived, a_faults>>

\* "self.visited[url] = depth" and the session.get of _fetch_page
Requesting ==
    /\ InLoop
    /\ a_url \notin DOMAIN a_visited
    /\ ~too_deep(a_depth)
    /\ a_visited' = (a_url :> a_depth) @@ a_visited
    /\ a_fetched' = Append(a_fetched, a_url)
    /\ UNCHANGED <<archConfig, a_state, a_session_id, a_archived>>

\* the request is answered with the page
Answered == Requesting /\ UNCHANGED a_faults

\* the request fails or is answered with something else than the page
NotAnswered ==
    /\ Requesting
    /\ a_faults < MaxArchiveFaults
    /\ a_faults' = a_faults + 1

\* the checkpoint test when it never asks for a checkpoint
checkpoint_due_never(n) == FALSE

\* "if len(self.visited) % checkpoint_interval == 0"
checkpoint_due(n) == n % checkpoint_interval = 0

\* the end of a pass of the loop: "if len(self.visited) % checkpoint_interval
\* == 0: self._save_checkpoint()", which commits
EndOfPass(conn, db, queue) ==
    /\ a_queue' = queue
    /\ IF checkpoint_due(Cardinality(DOMAIN a_visited'))
       THEN /\ a_conn' = _save_checkpoint(conn, a_session_id, a_visited')
            /\ a_db' = a_conn'
       ELSE /\ a_conn' = conn
            /\ a_db' = db
Processed(r) == EndOfPass(r.conn, r.db, r.queue)
Logged(t) == EndOfPass(t, t, Tail(a_queue))

\* status 200 with content type text/html: _process_page
ArchivePage ==
    /\ Answered
    /\ Processed(_process_page(a_conn, a_db, Tail(a_queue), a_visited',
                               page_html(a_url), a_url, a_depth))

\* f'HTTP_{response.status}'
http_error_type(status) == IF status = 500 THEN "HTTP_500" ELSE "HTTP_404"

\* status 500 and the other statuses from 400: logged as HTTP_<status>
ArchiveHttpError ==
    /\ NotAnswered
    /\ \E status \in {404, 500} :
          Logged(_log_error(a_conn, a_url, http_error_type(status)))

\* another status than 200, or another content type than text/html
ArchiveNotStored ==
    /\ NotAnswered
    /\ EndOfPass(a_conn, a_db, Tail(a_queue))

\* the exceptions _fetch_page catches around the request
ArchiveException ==
    /\ NotAnswered
    /\ \E error_type \in {"TIMEOUT", "SSL_ERROR", "CONNECTION_ERROR",
                          "CLIENT_ERROR", "UNKNOWN_ERROR"} :
          Logged(_log_error(a_conn, a_url, error_type))

\* _process_page with a link extraction that raises at its first anchor: the
\* page's two rows are committed, "except Exception: logger.debug(...)"
\* swallows the error, no link is inserted or queued
_process_page_no_links(conn, db, queue, html, url, depth) ==
    IF \E i \in 1..Len(conn.cdx_index) :
           conn.cdx_index[i].payload_digest = sha256(html)
    THEN [conn |-> conn, db |-> db, queue |-> queue]
    ELSE IF \E i \in 1..Len(conn.pages) : conn.pages[i].uri = url
    THEN [conn |-> [conn EXCEPT !.cdx_index = Append(@, cdx_row(url, html))],
          db |-> db, queue |-> queue]
    ELSE store_links([conn EXCEPT !.cdx_index = Append(@, cdx_row(url, html)),
                                  !.pages = Append(@, page_row(url, depth))],
                     [links |-> conn.links, queue |-> queue])

\* the page arrives and BeautifulSoup raises for it with the fallback parser
\* too: _process_page raises before it has written anything, and _fetch_page
\* logs PROCESS_ERROR
ArchiveProcessError ==
    /\ NotAnswered
    /\ Logged(_log_error(a_conn, a_url, "PROCESS_ERROR"))

\* the page arrives and is stored, and the extraction of its links raises
ArchiveLinkError ==
    /\ NotAnswered
    /\ Processed(_process_page_no_links(a_conn, a_db, Tail(a_queue),
                                        page_html(a_url), a_url, a_depth))

\* the page arrives and its first INSERT raises another sqlite3 error than
\* IntegrityError: "self._log_error(url, 'DB_ERROR', str(e)); return"
ArchiveDbError ==
    /\ NotAnswered
    /\ Logged(_log_error(a_conn, a_url, "DB_ERROR"))

\* the loop condition fails: the final checkpoint, which commits
ArchiveLastCheckpoint ==
    /\ a_state = "loop"
    /\ ~InLoop
    /\ a_conn' = _save_checkpoint(a_conn, a_session_id, a_visited)
    /\ a_db' = a_conn'
    /\ a_state' = "finalize"
    /\ UNCHANGED <<archConfig, a_visited, a_queue, a_session_id, a_fetched,
                   a_archived, a_faults>>

\* "await self._finalize()", which commits
ArchiveFinalize ==
    /\ a_state = "finalize"
    /\ a_conn' = _finalize(a_conn, a_session_id)
    /\ a_db' = a_conn'
    /\ a_state' = "done"
    /\ UNCHANGED <<archConfig, a_visited, a_queue, a_session_id, a_fetched,
                   a_archived, a_faults>>

\* the run is interrupted between two steps of archive() and a new archiver
\* is constructed on the same archive: the open transaction is lost, and
\* __init__ starts from an empty visited and a queue of the start URL; the
\* site may have been edited in between
ArchiveRestart ==
    /\ a_state \in {"start", "loop", "finalize"}
    /\ a_faults < MaxArchiveFaults
    /\ a_faults' = a_faults + 1
    /\ a_session_id' = a_session_id + 1
    /\ a_conn' = init_crawl_state(a_db, a_session_id')
    /\ a_db' = a_conn'
    /\ a_visited' = <<>>
    /\ a_queue' = <<<<a_start_url, 0>>>>
    /\ a_fetched' = <<>>
    /\ a_archived' = {a_db.pages[i].uri : i \in 1..Len(a_db.pages)}
    /\ a_state' = "start"
    /\ a_edition' \in {a_edition, a_edition + 1}
    /\ UNCHANGED archSetup

ArchNext ==
    \/ ArchiveSeed
    \/ ArchiveSkip
    \/ ArchivePage
    \/ ArchiveHttpError
    \/ ArchiveNotStored
    \/ ArchiveException
    \/ ArchiveProcessError
    \/ ArchiveLinkError
    \/ ArchiveDbError
    \/ ArchiveLastCheckpoint
    \/ ArchiveFinalize
    \/ ArchiveRestart

SpecArch == ArchInit /\ [][ArchNext]_vars


\* C1: in a run each normalized URL is fetched as a page at most once: two
\* requested URLs with the same normalized form are the same request.
C1_AtMostOnceFetch ==
    \A i, j \in 1..Len(a_fetched) :
        normalize(a_fetched[i]) = normalize(a_fetched[j]) => i = j

\* an earlier session of the archive wrote a checkpoint and did not complete
CheckpointedInterrupted ==
    \E i \in 1..Len(a_db.crawl_state) :
        /\ a_db.crawl_state[i].session_id < a_session_id
        /\ a_db.crawl_state[i].status = "running"
        /\ a_db.crawl_state[i].total_urls_processed > 0

\* C6: an archiver started on the archive of a checkpointed, interrupted run
\* fetches no URL that had a Page Record when it started.
C6_ResumeNoRefetch ==
    CheckpointedInterrupted =>
        \A i \in 1..Len(a_fetched) : a_fetched[i] \notin a_archived

\* the site of three pages that all link to each other
MutualPages == {Root, PageB, PageS}
MutuallyLinked == \A u \in MutualPages : site[u] = <<Root, PageB, PageS>>

\* C8: a completed, undisturbed crawl of three mutually linked pages with a
\* page budget that covers them ends with three Page Records and a Link
\* Record for every link from one of the pages to another.
C8_ThreePagesAllLinks ==
    (/\ a_state = "done"
     /\ a_session_id = 1
     /\ a_faults = 0
     /\ MutuallyLinked
     /\ a_max_pages >= 3
     /\ a_max_depth >= 1)
    => /\ Len(a_db.pages) = 3
       /\ \A u \in MutualPages : \A t \in MutualPages \ {u} :
             \E i \in 1..Len(a_db.links) :
                 /\ a_db.links[i].from_uri = u
                 /\ a_db.links[i].to_uri = t


(***************************************************************************)
(* SpecAssets: WARCCompliantArchiver._download_assets_batch (v2), which    *)
(* gathers one AssetExtractor.download_and_save_asset coroutine per asset  *)
(* of a page.  A coroutine gives way at "async with session.get" and at    *)
(* "await response.read()"; what follows the read runs without a break.    *)
(***************************************************************************)
\* most assets of one page
MaxAssets == 2
\* most pages whose assets are downloaded
MaxBatches == 2

\* the asset URLs of the site
AssetURLs == {"http://a/i.png", "http://a/j.png", "http://a/k.css"}

\* the bytes a download may return ("" is an empty body)
Contents == {"", "x", "y"}

\* extract_assets: the distinct asset URLs of a page, in document order
Batches ==
    {b \in UNION {[1..n -> AssetURLs] : n \in 1..MaxAssets} :
        \A i, j \in 1..Len(b) : b[i] = b[j] => i = j}

\* the coroutines of a batch, all waiting for their response
gather(batch) ==
    [i \in 1..Len(batch) |->
        [url |-> batch[i], pc |-> "get", content |-> "", result |-> "none"]]

\* the asset tables of the v2 archive
EmptyAssetTables == [asset_blobs |-> <<>>, assets |-> <<>>]

\* an INSERT INTO asset_blobs that no constraint stops
insert_blob_unchecked(t, content_hash, content) ==
    [t EXCEPT !.asset_blobs =
        Append(@, [content_hash |-> content_hash, content |-> content])]

\* download_and_save_asset without its INSERT INTO asset_blobs
insert_blob_left_out(t, content_hash, content) == t

\* "INSERT OR IGNORE INTO asset_blobs": content_hash is UNIQUE
insert_blob(t, content_hash, content) ==
    IF \E i \in 1..Len(t.asset_blobs) : t.asset_blobs[i].content_hash = content_hash
    THEN t
    ELSE [t EXCEPT !.asset_blobs =
             Append(@, [content_hash |-> content_hash, content |-> content])]

\* "INSERT OR IGNORE INTO assets": url and content_hash are UNIQUE
insert_asset(t, url, content_hash) ==
    IF \E i \in 1..Len(t.assets) :
           t.assets[i].url = url \/ t.assets[i].content_hash = content_hash
    THEN t
    ELSE [t EXCEPT !.assets =
             Append(@, [url |-> url, content_hash |-> content_hash])]


\* the connection after the first n statements of "Save to database" ran:
\* the blob insert, then the asset insert
written(t, url, content, n) ==
    IF n = 0 THEN t
    ELSE IF n = 1 THEN insert_blob(t, sha256(content), content)
    ELSE insert_asset(insert_blob(t, sha256(content), content), url,
                      sha256(content))

AssetsInit ==
    /\ NormIdle
    /\ PCIdle
    /\ ArchIdle
    /\ SiteIdle
    /\ RobotsIdle
    /\ FullIdle
    /\ StoreIdle
    /\ PoliteIdle
    /\ CheckpointIdle
    /\ RewriteIdle
    /\ DocIdle
    /\ ConcIdle
    /\ FilesIdle
    /\ GatherIdle
    /\ x_tasks \in {gather(b) : b \in Batches}
    /\ x_db = EmptyAssetTables
    /\ x_conn = x_db
    /\ x_hashes = {}
    /\ x_batches = 1
    /\ x_faults = 0

assetsConfig == <<normVars, pcVars, archVars, robotsVars, fullVars, storeVars, politeVars, checkpointVars, rewriteVars, docVars, concVars, fileVars, gatherVars, site>>

\* the coroutine ends with its result dictionary
Ended(t, content, result) ==
    x_tasks' = [x_tasks EXCEPT ![t] =
                   [@ EXCEPT !.pc = "done", !.content = content,
                             !.result = result]]

\* a download or a database write fails
AssetFault ==
    /\ x_faults < MaxFaults
    /\ x_faults' = x_faults + 1

\* session.get answers with status 200: on to "await response.read()"
AssetResponse ==
    \E t \in 1..Len(x_tasks) :
        /\ x_tasks[t].pc = "get"
        /\ x_tasks' = [x_tasks EXCEPT ![t].pc = "read"]
        /\ UNCHANGED <<assetsConfig, x_db, x_conn, x_hashes, x_batches, x_faults>>

\* "if response.status != 200": failed
AssetNot200 ==
    \E t \in 1..Len(x_tasks) :
        /\ x_tasks[t].pc = "get"
        /\ AssetFault
        /\ Ended(t, "", "failed")
        /\ UNCHANGED <<assetsConfig, x_db, x_conn, x_hashes, x_batches>>

\* asyncio.TimeoutError or another exception of the request or the read
AssetDownloadError ==
    \E t \in 1..Len(x_tasks) :
        /\ x_tasks[t].pc \in {"get", "read"}
        /\ AssetFault
        /\ Ended(t, "", "failed")
        /\ UNCHANGED <<assetsConfig, x_db, x_conn, x_hashes, x_batches>>

\* "if not content or len(content) == 0": failed
AssetEmpty ==
    \E t \in 1..Len(x_tasks) :
        /\ x_tasks[t].pc = "read"
        /\ Ended(t, "", "failed")
        /\ UNCHANGED <<assetsConfig, x_db, x_conn, x_hashes, x_batches, x_faults>>

\* "if content_hash in self.downloaded_hashes": skipped
AssetSkipped ==
    \E t \in 1..Len(x_tasks) :
        /\ x_tasks[t].pc = "read"
        /\ \E content \in Contents \ {""} :
              /\ sha256(content) \in x_hashes
              /\ Ended(t, content, "skipped")
        /\ UNCHANGED <<assetsConfig, x_db, x_conn, x_hashes, x_batches, x_faults>>

\* the blob insert, the asset insert, the commit, and the hash remembered
AssetSaved ==
    \E t \in 1..Len(x_tasks) :
        /\ x_tasks[t].pc = "read"
        /\ \E content \in Contents \ {""} :
              /\ sha256(content) \notin x_hashes
              /\ x_conn' = written(x_conn, x_tasks[t].url, content, 2)
              /\ x_db' = x_conn'
              /\ x_hashes' = x_hashes \cup {sha256(content)}
              /\ Ended(t, content, "downloaded")
        /\ UNCHANGED <<assetsConfig, x_batches, x_faults>>

\* "except Exception": one of the two inserts or the commit raises; what was
\* written before stays in the open transaction
AssetDbError ==
    \E t \in 1..Len(x_tasks) :
        /\ x_tasks[t].pc = "read"
        /\ AssetFault
        /\ \E content \in Contents \ {""}, n \in 0..2 :
              /\ sha256(content) \notin x_hashes
              /\ x_conn' = written(x_conn, x_tasks[t].url, content, n)
              /\ Ended(t, content, "failed")
        /\ UNCHANGED <<assetsConfig, x_db, x_hashes, x_batches>>

\* gather returned; the assets of the next page are gathered
NextBatch ==
    /\ x_tasks # <<>>
    /\ \A t \in 1..Len(x_tasks) : x_tasks[t].pc = "done"
    /\ x_batches < MaxBatches
    /\ x_batches' = x_batches + 1
    /\ x_tasks' \in {gather(b) : b \in Batches}
    /\ UNCHANGED <<assetsConfig, x_db, x_conn, x_hashes, x_faults>>

AssetsNext ==
    \/ AssetResponse
    \/ AssetNot200
    \/ AssetDownloadError
    \/ AssetEmpty
    \/ AssetSkipped
    \/ AssetSaved
    \/ AssetDbError
    \/ NextBatch

SpecAssets == AssetsInit /\ [][AssetsNext]_vars

\* the rows of a table with a content hash
with_hash(rows, content_hash) ==
    {i \in 1..Len(rows) : rows[i].content_hash = content_hash}

\* C3: after any interleaving of the asset saves of a gather, asset_blobs
\* holds at most one row per content hash, in the committed tables and in
\* the connection's view of them.
C3_OneBlobPerHash ==
    \A content \in Contents :
        /\ Cardinality(with_hash(x_db.asset_blobs, sha256(content))) <= 1
        /\ Cardinality(with_hash(x_conn.asset_blobs, sha256(content))) <= 1

\* two downloads of one gather returned the same bytes and both went through
\* the save: one stored them, the other found the hash
C3_Witness ==
    \E i, j \in 1..Len(x_tasks) :
        /\ i # j
        /\ x_tasks[i].result = "downloaded"
        /\ x_tasks[j].result = "skipped"
        /\ x_tasks[i].content = x_tasks[j].content
        /\ Cardinality(with_hash(x_db.asset_blobs,
                                 sha256(x_tasks[i].content))) = 1

\* C4: in every committed state each Asset Record's content_hash has a Blob
\* Record with that content_hash.
C4_AssetHasBlob ==
    \A i \in 1..Len(x_db.assets) :
        with_hash(x_db.asset_blobs, x_db.assets[i].content_hash) # {}

\* Asset Records are committed, and so is a blob whose asset insert failed
\* or was ignored
C4_Witness ==
    /\ x_db.assets # <<>>
    /\ Len(x_db.asset_blobs) > Len(x_db.assets)

\* C7: two asset URLs whose downloads returned the same bytes end with an
\* Asset Record each and one Blob Record between them.
C7_TwoAssetsOneBlob ==
    \A i, j \in 1..Len(x_tasks) :
        (/\ x_batches = 1
         /\ x_faults = 0
         /\ i # j
         /\ x_tasks[i].result # "none"
         /\ x_tasks[j].result # "none"
         /\ x_tasks[i].content # ""
         /\ x_tasks[i].content = x_tasks[j].content)
        => /\ \E k \in 1..Len(x_db.assets) : x_db.assets[k].url = x_tasks[i].url
           /\ \E k \in 1..Len(x_db.assets) : x_db.assets[k].url = x_tasks[j].url
           /\ Cardinality(with_hash(x_db.asset_blobs,
                                    sha256(x_tasks[i].content))) = 1


(***************************************************************************)
(* SpecRobots: RobotsCompliance of robot_parser.py: parse_robots_txt on    *)
(* the text of a robots.txt, then can_fetch.  A line is given as its       *)
(* directive name (lower case, before the colon) and its stripped value.   *)
(***************************************************************************)
\* most lines of a robots.txt
MaxLines == 4

\* RobotsCompliance.user_agent, "ArchiveBot/3.0"
r_user_agent ==
    <<"A", "r", "c", "h", "i", "v", "e", "B", "o", "t", "/", "3", ".", "0">>

\* the lines a robots.txt is made of
RobotsLines ==
    {[name |-> "user-agent", value |-> v] :
        v \in {<<"*">>, <<"A", "r", "c", "h", "i", "v", "e", "B", "o", "t">>,
               <<"o", "t", "h", "e", "r">>}}
    \cup {[name |-> "crawl-delay", value |-> v] : v \in {<<"2">>, <<"x">>}}
    \cup {[name |-> "request-rate", value |-> v] :
            v \in {<<"1", "/", "5">>, <<"0", "/", "5">>, <<"5">>}}
    \cup {[name |-> "disallow", value |-> v] : v \in {<<"/">>, <<"/", "p", "/">>}}

RobotsTexts == UNION {[1..n -> RobotsLines] : n \in 0..MaxLines}

\* "sub in s" for strings
Contains(s, sub) ==
    \E i \in 0..(Len(s) - Len(sub)) : SubSeq(s, i + 1, i + Len(sub)) = sub

\* float(): the numbers of the model's lines are single digits
IsFloat(s) == Len(s) = 1 /\ s[1] \in {"0", "1", "2", "5"}
float(s) ==
    CASE s[1] = "0" -> 0
      [] s[1] = "1" -> 1
      [] s[1] = "2" -> 2
      [] s[1] = "5" -> 5

\* "value == '*' or value.lower() in self.user_agent.lower()"
agent_matches(value) ==
    value = <<"*">> \/ Contains(Lower(r_user_agent), Lower(value))

\* a new RobotsCompliance: no current user agent, crawl_delay 0,
\* request_rate None (the empty sequence)
NewRobots ==
    [agent |-> <<>>, crawl_delay |-> 0, request_rate |-> <<>>, raised |-> FALSE]

\* the Request-Rate branch: "requests, period = map(float, rate_str.split('/'))"
\* and "self.request_rate = period / requests"; ValueError is passed over,
\* ZeroDivisionError is not caught
request_rate_line(st, parts) ==
    IF Len(parts) # 2 \/ ~IsFloat(parts[1]) \/ ~IsFloat(parts[2]) THEN st
    ELSE IF float(parts[1]) = 0 THEN [st EXCEPT !.raised = TRUE]
    ELSE [st EXCEPT !.request_rate = <<float(parts[2]) \div float(parts[1])>>]

\* one pass of the loop of parse_robots_txt
parse_line(st, line) ==
    IF st.raised THEN st
    ELSE IF line.name = "user-agent"
    THEN IF agent_matches(line.value) THEN [st EXCEPT !.agent = line.value]
         ELSE st
    ELSE IF line.name = "crawl-delay" /\ st.agent # <<>>
    THEN IF IsFloat(line.value)
         THEN [st EXCEPT !.crawl_delay = float(line.value)]
         ELSE st
    ELSE IF line.name = "request-rate" /\ st.agent # <<>>
    THEN request_rate_line(st, Split(line.value, "/"))
    ELSE st

RECURSIVE parse_lines(_, _)
parse_lines(st, lines) ==
    IF lines = <<>> THEN st
    ELSE parse_lines(parse_line(st, Head(lines)), Tail(lines))

\* "if self.request_rate: self.crawl_delay = max(self.crawl_delay,
\* self.request_rate)"
most_restrictive(st) ==
    IF st.raised \/ st.request_rate = <<>> \/ st.request_rate = <<0>> THEN st
    ELSE IF st.request_rate[1] > st.crawl_delay
    THEN [st EXCEPT !.crawl_delay = st.request_rate[1]]
    ELSE st

\* RobotsCompliance.parse_robots_txt
parse_robots_txt(content) == most_restrictive(parse_lines(NewRobots, content))

\* RobotsCompliance.can_fetch: "return True" for every URL
can_fetch(url) == TRUE

RobotsInit ==
    /\ NormIdle
    /\ PCIdle
    /\ ArchIdle
    /\ AssetsIdle
    /\ SiteIdle
    /\ FullIdle
    /\ StoreIdle
    /\ PoliteIdle
    /\ CheckpointIdle
    /\ RewriteIdle
    /\ DocIdle
    /\ ConcIdle
    /\ FilesIdle
    /\ GatherIdle
    /\ r_content \in RobotsTexts
    /\ r_url \in {Root, PageB, PageS}
    /\ r_agent = <<>>
    /\ r_crawl_delay = 0
    /\ r_request_rate = <<>>
    /\ r_allowed = TRUE
    /\ r_state = "loaded"

robotsConfig == <<normVars, pcVars, archVars, assetVars, fullVars, storeVars, politeVars, checkpointVars, rewriteVars, docVars, concVars, fileVars, gatherVars, site, r_content, r_url>>

\* parse_robots_txt returns
ParseRobots ==
    /\ r_state = "loaded"
    /\ ~parse_robots_txt(r_content).raised
    /\ r_agent' = parse_robots_txt(r_content).agent
    /\ r_crawl_delay' = parse_robots_txt(r_content).crawl_delay
    /\ r_request_rate' = parse_robots_txt(r_content).request_rate
    /\ r_state' = "parsed"
    /\ UNCHANGED <<robotsConfig, r_allowed>>

\* parse_robots_txt raises ZeroDivisionError
ParseRobotsRaises ==
    /\ r_state = "loaded"
    /\ parse_robots_txt(r_content).raised
    /\ r_state' = "raised"
    /\ UNCHANGED <<robotsConfig, r_agent, r_crawl_delay, r_request_rate,
                   r_allowed>>

\* can_fetch(url) is asked
CanFetch ==
    /\ r_state = "parsed"
    /\ r_allowed' = can_fetch(r_url)
    /\ r_state' = "checked"
    /\ UNCHANGED <<robotsConfig, r_agent, r_crawl_delay, r_request_rate>>

\* RobotsCompliance.parse_robots_txt of smart_archiver_v4.py: the first
\* Crawl-Delay line with a number, whatever group it stands in
RECURSIVE first_crawl_delay(_)
first_crawl_delay(lines) ==
    IF lines = <<>> THEN 0
    ELSE IF Head(lines).name = "crawl-delay" /\ IsFloat(Head(lines).value)
    THEN float(Head(lines).value)
    ELSE first_crawl_delay(Tail(lines))

\* the v4 archiver parses the robots.txt
ParseRobotsV4 ==
    /\ r_state = "loaded"
    /\ r_crawl_delay' = first_crawl_delay(r_content)
    /\ r_state' = "parsed_v4"
    /\ UNCHANGED <<robotsConfig, r_agent, r_request_rate, r_allowed>>

RobotsNext == ParseRobots \/ ParseRobotsRaises \/ CanFetch \/ ParseRobotsV4

SpecRobots == RobotsInit /\ [][RobotsNext]_vars

\* a Disallow line belongs to the group of the nearest User-agent line above
\* it, and applies when that line names the crawler or is '*'
Applies(content, j) ==
    \E i \in 1..(j - 1) :
        /\ content[i].name = "user-agent"
        /\ agent_matches(content[i].value)
        /\ \A k \in (i + 1)..(j - 1) : content[k].name # "user-agent"
Disallowed(content, url) ==
    \E j \in 1..Len(content) :
        /\ content[j].name = "disallow"
        /\ Applies(content, j)
        /\ StartsWith(urlparse(url).path, content[j].value)

\* C2: for a URL whose path matches a Disallow rule that applies to the
\* crawler's user agent, can_fetch returns false.
C2_DisallowedNotAllowed ==
    (r_state = "checked" /\ Disallowed(r_content, r_url)) => r_allowed = FALSE

\* a directive line is in a group of the crawler when a User-agent line
\* above it names the crawler or is '*', and every User-agent line between
\* the two stands in the same run of consecutive User-agent lines
InCrawlerGroup(content, j) ==
    \E i \in 1..(j - 1) :
        /\ content[i].name = "user-agent"
        /\ agent_matches(content[i].value)
        /\ \A k \in (i + 1)..(j - 1) :
               content[k].name = "user-agent" =>
                   \A n \in i..k : content[n].name = "user-agent"

\* the value of a directive line as a delay in seconds, <<>> when the line
\* gives none: the Crawl-Delay number, period / requests of a Request-Rate
directive_delay(line) ==
    LET parts == Split(line.value, "/")
    IN  IF line.name = "crawl-delay" /\ IsFloat(line.value)
        THEN <<float(line.value)>>
        ELSE IF /\ line.name = "request-rate"
                /\ Len(parts) = 2
                /\ IsFloat(parts[1])
                /\ IsFloat(parts[2])
                /\ float(parts[1]) # 0
        THEN <<float(parts[2]) \div float(parts[1])>>
        ELSE <<>>

\* the delay the last line of this name that applies to the crawler gives,
\* 0 when there is none
last_delay(content, name) ==
    LET given == {j \in 1..Len(content) :
                     /\ content[j].name = name
                     /\ directive_delay(content[j]) # <<>>
                     /\ InCrawlerGroup(content, j)}
    IN  IF given = {} THEN 0
        ELSE directive_delay(content[CHOOSE j \in given : \A k \in given : k <= j])[1]

\* the larger of the Crawl-Delay and the Request-Rate delay that apply
effective_delay(content) ==
    IF last_delay(content, "crawl-delay") >= last_delay(content, "request-rate")
    THEN last_delay(content, "crawl-delay")
    ELSE last_delay(content, "request-rate")

\* C21: after parse_robots_txt the effective crawl delay equals the maximum
\* of the Crawl-Delay value and period/requests of the Request-Rate
\* directive that apply to the crawler (0 when neither is given), whatever
\* order the two directives appear in
C21_EffectiveDelay ==
    r_state \in {"parsed", "checked"} => r_crawl_delay = effective_delay(r_content)

\* the part of C21 that holds: in a robots.txt whose User-agent lines all
\* name the crawler or '*', the crawl delay is that maximum
C21_OneAgent ==
    (/\ r_state \in {"parsed", "checked"}
     /\ \A j \in 1..Len(r_content) :
            r_content[j].name = "user-agent" => agent_matches(r_content[j].value))
        => r_crawl_delay = effective_delay(r_content)

\* C22: robots policy is fail-open and never fails on bad input: for an
\* absent robots.txt (the empty text) and for any malformed directive line
\* (a non-numeric Crawl-delay, a Request-rate without '/', a Request-rate of
\* '0/5') loading completes without raising and every URL stays allowed
C22_FailOpen ==
    /\ r_state # "raised"
    /\ r_state = "checked" => r_allowed = TRUE

\* the part of C22 that holds: a robots.txt without a Request-rate of zero
\* requests is loaded without raising, and every URL is allowed after it
C22_FailOpenButZeroRate ==
    (\A j \in 1..Len(r_content) :
         r_content[j] # [name |-> "request-rate", value |-> <<"0", "/", "5">>])
        => C22_FailOpen

(***************************************************************************)
(* SpecFull: FullCrawler.run on a site whose pages carry links only.       *)
(***************************************************************************)
\* FullCrawler.u and FullCrawler.d
f_u == Root
f_d == urlparse(f_u).netloc

\* the file name _make_local_path appends to a path without a suffix
IndexHtml == <<"i", "n", "d", "e", "x", ".", "h", "t", "m", "l">>

\* FullCrawler._ok
_ok(v, m, url) ==
    /\ url \notin v
    /\ Cardinality(v) < m
    /\ urlparse(url).netloc = f_d
    /\ StartsWith(url, HttpPrefix) \/ StartsWith(url, HttpsPrefix)

\* FullCrawler._make_local_path: the components of the file's path under
\* FullCrawler.out (the model's paths have no suffix, and pathlib drops the
\* empty components)
_make_local_path(url) ==
    SelectSeq(Split(urlparse(url).path, "/"), LAMBDA c : c # <<>>)
        \o <<IndexHtml>>

\* FullCrawler._rewrite_html with an empty file_map: the anchors whose
\* target passes _ok get a local path, the others keep their href
_rewrite_html(html, base_url, v, m) ==
    [text |-> html.text,
     anchors |-> html.anchors,
     local |-> [i \in 1..Len(html.anchors) |->
                   _ok(v, m, urljoin(base_url, html.anchors[i]))]]

\* FullDB.save_page: INSERT OR REPLACE on the UNIQUE column url
FullDB_save_page(pages, url, html, path) ==
    SelectSeq(pages, LAMBDA r : r.url # url)
        \o <<[url |-> url, html |-> html, local_path |-> path]>>

\* run(): "for a in soup.find_all('a',href=True): link_url=urljoin(url,
\* a['href']); if self._ok(link_url): self.q.append(link_url)"
full_links(html, url, v, m) ==
    SelectSeq([i \in 1..Len(html.anchors) |-> urljoin(url, html.anchors[i])],
              LAMBDA l : _ok(v, m, l))

FullInit ==
    /\ NormIdle
    /\ PCIdle
    /\ ArchIdle
    /\ AssetsIdle
    /\ RobotsIdle
    /\ StoreIdle
    /\ PoliteIdle
    /\ CheckpointIdle
    /\ RewriteIdle
    /\ DocIdle
    /\ ConcIdle
    /\ FilesIdle
    /\ GatherIdle
    /\ site \in Sites
    /\ f_m \in 0..MaxFullPages
    /\ f_v = {}
    /\ f_q = <<f_u>>
    /\ f_pages = <<>>
    /\ f_state = "loop"
    /\ f_faults = 0

fullConfig == <<normVars, pcVars, archVars, assetVars, robotsVars, storeVars, politeVars, checkpointVars, rewriteVars, docVars, concVars, fileVars, gatherVars, site, f_m>>

\* "while self.q and len(self.v)<self.m"
FullInLoop ==
    /\ f_state = "loop"
    /\ f_q # <<>>
    /\ Cardinality(f_v) < f_m

\* "url=self.q.pop(0); if url in self.v:continue"
FullSkip ==
    /\ FullInLoop
    /\ Head(f_q) \in f_v
    /\ f_q' = Tail(f_q)
    /\ UNCHANGED <<fullConfig, f_v, f_pages, f_state, f_faults>>

\* "self.v.add(url)" and fetch_html
FullRequesting ==
    /\ FullInLoop
    /\ Head(f_q) \notin f_v
    /\ f_v' = f_v \cup {Head(f_q)}
    /\ UNCHANGED <<fullConfig, f_state>>

\* fetch_html returns the document: it is rewritten, saved, and its links
\* are appended to the frontier
FullPage ==
    /\ FullRequesting
    /\ \E url \in {Head(f_q)} :
          /\ f_pages' = FullDB_save_page(f_pages, url,
                            _rewrite_html(page_html(url), url, f_v', f_m),
                            _make_local_path(url))
          /\ f_q' = Tail(f_q) \o full_links(page_html(url), url, f_v', f_m)
    /\ UNCHANGED f_faults

\* fetch_html returns None (another status or content type, an exception)
\* or an empty document
FullNoPage ==
    /\ FullRequesting
    /\ f_faults < MaxFaults
    /\ f_faults' = f_faults + 1
    /\ f_q' = Tail(f_q)
    /\ UNCHANGED f_pages

\* the while condition fails and run() returns its summary
FullReturn ==
    /\ f_state = "loop"
    /\ ~FullInLoop
    /\ f_state' = "done"
    /\ UNCHANGED <<fullConfig, f_v, f_q, f_pages, f_faults>>

FullNext == FullSkip \/ FullPage \/ FullNoPage \/ FullReturn

SpecFull == FullInit /\ [][FullNext]_vars

(***************************************************************************)
(* SpecCrawl: the crawl loops of ProductionCrawler, of the v4 archiver and *)
(* of FullCrawler; every behaviour runs one of them.                       *)
(***************************************************************************)
CrawlInit == PCInit \/ ArchInit \/ FullInit

CrawlNext == PCNext \/ ArchNext \/ FullNext

SpecCrawl == CrawlInit /\ [][CrawlNext]_vars

\* the Page Records the current run of the archiver has created
a_new_pages == SelectSeq(a_db.pages, LAMBDA r : r.uri \notin a_archived)

\* C11: page budget: at every point of a run the URLs dequeued and marked
\* visited are at most max_pages, and so are the run's page fetches and the
\* Page Records it has created, in each of the three crawl loops.
C11_PageBudget ==
    /\ p_state # "idle" =>
          /\ Cardinality(p_visited) <= p_max_pages
          /\ Len(p_pages) <= p_max_pages
    /\ a_state # "idle" =>
          /\ Cardinality(DOMAIN a_visited) <= a_max_pages
          /\ Len(a_fetched) <= a_max_pages
          /\ Len(a_new_pages) <= a_max_pages
    /\ f_state # "idle" =>
          /\ Cardinality(f_v) <= f_m
          /\ Len(f_pages) <= f_m

\* the archiver has used its whole budget and stopped with URLs left in the
\* frontier
C11_Witness ==
    /\ a_state = "done"
    /\ a_queue # <<>>
    /\ Cardinality(DOMAIN a_visited) = a_max_pages
    /\ Len(a_new_pages) = a_max_pages

\* C12: depth bound: the archiver's crawl loop fetches no frontier entry
\* deeper than max_depth, and every Page Record has depth <= max_depth, the
\* URLs seeded from the sitemap at depth 1 included.
C12_DepthBound ==
    a_state # "idle" =>
        /\ \A u \in DOMAIN a_visited : a_visited[u] <= a_max_depth
        /\ \A i \in 1..Len(a_conn.pages) : a_conn.pages[i].depth <= a_max_depth
        /\ \A i \in 1..Len(a_db.pages) : a_db.pages[i].depth <= a_max_depth

\* a completed run with max_depth 0 and budget to spare on a site with a
\* sitemap: only the start URL was requested, the seeded URLs were dropped
C12_Witness ==
    /\ a_state = "done"
    /\ a_max_depth = 0
    /\ a_max_pages > 1
    /\ a_sitemap # <<>>
    /\ a_fetched = <<a_start_url>>
    /\ Len(a_db.pages) = 1
    /\ a_queue = <<>>

(***************************************************************************)
(* The crawl loops under a scheduler that keeps running them: asyncio runs *)
(* a coroutine that is ready, and every await of the loops resolves        *)
(* (requests and sleeps carry timeouts).  An interruption of the archiver  *)
(* may happen, and is never forced.                                        *)
(***************************************************************************)
\* largest max_pages of the crawler in the runs checked for termination
MaxFairPages == 3

\* the sites whose pages all carry the same list of links
UniformSites == {s \in Sites : \A u \in SiteURLs : s[u] = s[Root]}

PCFairInit == PCStart(UniformSites, 1..MaxFairPages)

\* run(): a pass of the loop pops the head of the frontier (what every
\* Dequeue step does, and no other step of the crawler)
Popping ==
    /\ p_state = "loop"
    /\ p_queue # <<>>
    /\ Cardinality(p_visited) < p_max_pages
    /\ p_queue' = Tail(p_queue)

\* the other steps of run() and fetch()
PCRun ==
    \/ Finish
    \/ FetchOk
    \/ FetchRedirect
    \/ FetchRateLimited
    \/ FetchBadRetryAfter
    \/ FetchServerError
    \/ FetchNotFoundOrForbidden
    \/ FetchOtherStatus
    \/ FetchTransientError
    \/ FetchFatalError
    \/ FetchUnexpected
    \/ FetchExhausted

SpecPCFair ==
    PCFairInit /\ [][PCNext]_vars /\ WF_p_queue(Popping) /\ WF_vars(PCRun)

\* archive(): a pass of the loop that requests a page marks its URL
\* visited (what every step made of Requesting does, and no other step)
Visiting ==
    /\ InLoop
    /\ a_url \notin DOMAIN a_visited
    /\ ~too_deep(a_depth)
    /\ a_visited' = (a_url :> a_depth) @@ a_visited

\* the other steps of archive()
ArchRun ==
    \/ ArchiveSeed
    \/ ArchiveSkip
    \/ ArchiveLastCheckpoint
    \/ ArchiveFinalize

ArchFairInit == ArchStart(UniformSites)

SpecArchFair ==
    ArchFairInit /\ [][ArchNext]_vars /\ WF_a_visited(Visiting) /\ WF_vars(ArchRun)

\* the crawl loop of ProductionCrawler.run is over: it was left through its
\* condition, or by the exception fetch re-raised
p_stopped == p_state \in {"done", "raised"}
\* the crawl loop of archive() is over
a_stopped == a_state \in {"finalize", "done"}

\* C13: termination: the crawl loop of ProductionCrawler.run eventually
\* stops, and when it has stopped the frontier is empty or the page budget
\* is reached.
C13_Termination ==
    /\ <>p_stopped
    /\ [](p_stopped =>
            (p_queue = <<>> \/ Cardinality(p_visited) >= p_max_pages))

\* the same for the crawl loop of the v4 archiver: it eventually stops for
\* good, and a stopped loop has an empty frontier or a used-up budget
C13_ArchiveTermination ==
    /\ <>[]a_stopped
    /\ [](a_stopped =>
            (a_queue = <<>> \/ Cardinality(DOMAIN a_visited) >= a_max_pages))

\* both loops do stop, by their condition or by an exception
C13_LoopsStop == <>p_stopped

\* the Error Records a log holds for a URL
records_of(log, url) == SelectSeq(log, LAMBDA r : r.url = url)

\* the step is the answer to an attempt of fetch(): a 4xx status other than
\* 429 (fetch counts it in stats['http_errors'])
ClientErrorStep ==
    /\ p_state = "fetch"
    /\ \E st \in ErrorStatuses : p_http_errors'[st] = p_http_errors[st] + 1
\* the step is an attempt of fetch() that failed SSL verification
SSLErrorStep ==
    /\ p_state = "fetch"
    /\ Len(p_error_log') = Len(p_error_log) + 1
    /\ p_error_log'[Len(p_error_log')].error_type = "SSL_ERROR"

\* C14: a non-transient failure (a 4xx status other than 429, an SSL
\* verification failure) ends fetch at that attempt, with no retry, and
\* writes exactly one Error Record for the URL.
C14_NonTransientFailure ==
    [][(ClientErrorStep \/ SSLErrorStep) =>
          /\ p_state' = "loop"
          /\ p_attempt' = p_attempt
          /\ Len(records_of(p_error_log', p_url))
                 = Len(records_of(p_error_log, p_url)) + 1]_vars

\* the part of C14 that holds: the failure ends the call at that attempt
C14_NoRetry ==
    [][(ClientErrorStep \/ SSLErrorStep) =>
          (p_state' = "loop" /\ p_attempt' = p_attempt)]_vars

\* C15: only terminal failures reach the error log: when a call of fetch has
\* ended in success (its page is saved), the error log holds no Error Record
\* for that URL, also when earlier attempts of the call timed out or hit a
\* connection error.
C15_SuccessLeavesNoError ==
    (p_state \in {"loop", "done"} /\ pages_of(p_url) # <<>>)
        => errors_of(p_url) = <<>>

\* the step is an attempt of fetch() that is answered with status 429
RateLimitedStep == FetchRateLimited \/ FetchBadRetryAfter

\* C16: on a 429 response at attempt index i, fetch waits the Retry-After
\* value when the header is present and otherwise 2^i, and goes on to the
\* next attempt; whatever the header holds, the exception that aborts the
\* crawl is not raised.
C16_RetryAfter ==
    [][RateLimitedStep =>
          /\ p_state' # "raised"
          /\ p_slept' = (IF p_retry_after'.present THEN p_retry_after'.seconds
                         ELSE 2^p_attempt)
          /\ p_attempt' = p_attempt + 1]_vars

\* the part of C16 that holds: a Retry-After of delay-seconds is waited, a
\* missing one gives the backoff delay, and the next attempt follows
C16_IntegerRetryAfter ==
    [][(RateLimitedStep /\ (p_retry_after'.present => p_retry_after'.integer)) =>
          /\ p_state' = "fetch"
          /\ p_slept' = (IF p_retry_after'.present THEN p_retry_after'.seconds
                         ELSE 2^p_attempt)
          /\ p_attempt' = p_attempt + 1]_vars

\* the Page Records a database holds for a URL
pages_for(t, url) == SelectSeq(t.pages, LAMBDA r : r.uri = url)

\* C17: every successfully fetched HTML document whose URL has no Page
\* Record yet gets exactly one Page Record in the v4 archiver, also when its
\* bytes equal those of a page stored earlier under another URL.
C17_PageRecordPerDocument ==
    [][(ArchivePage /\ pages_for(a_db, a_url) = <<>>) =>
          Len(pages_for(a_db', a_url)) = 1]_vars

\* the part of C17 that holds: a document whose bytes no stored capture has
\* gets its Page Record
C17_NewBytesStored ==
    [][(/\ ArchivePage
        /\ pages_for(a_db, a_url) = <<>>
        /\ \A i \in 1..Len(a_conn.cdx_index) :
              a_conn.cdx_index[i].payload_digest # sha256(page_html(a_url)))
          => Len(pages_for(a_db', a_url)) = 1]_vars

\* the CDX entries a database holds for a URI
cdx_for(t, uri) == SelectSeq(t.cdx_index, LAMBDA r : r.uri = uri)

\* C18: in every committed state Page Records and CDX entries correspond one
\* to one: each Page Record has exactly one CDX entry with its URI, and every
\* committed CDX entry belongs to a Page Record (none is committed for a
\* capture whose Page Record insert was rejected).
C18_PagesMatchCdx ==
    a_state # "idle" =>
        /\ \A i \in 1..Len(a_db.pages) :
              Len(cdx_for(a_db, a_db.pages[i].uri)) = 1
        /\ \A i \in 1..Len(a_db.cdx_index) :
              /\ Len(pages_for(a_db, a_db.cdx_index[i].uri)) = 1
              /\ Len(cdx_for(a_db, a_db.cdx_index[i].uri)) = 1

\* the part of C18 that holds: every committed Page Record has a CDX entry
C18_PageHasCdx ==
    a_state # "idle" =>
        \A i \in 1..Len(a_db.pages) : cdx_for(a_db, a_db.pages[i].uri) # <<>>

(***************************************************************************)
(* SpecStore: the page stores on their own.  One database file is kept     *)
(* over several runs, so save_page is called again and again with the URLs *)
(* and the documents the runs fetch; every call is one action.             *)
(***************************************************************************)
\* most store operations on one database
MaxSaves == 4

\* the URLs and the documents handed to save_page
StoreUrls == {Root, PageB}
StoreHtmls == {Body(<<>>), Body(<<PageB>>)}

\* hashlib.md5(html.encode()).hexdigest(): equal digests only for equal text
md5(html) == <<"md5", html>>

\* WebsiteDatabase.save_page: a plain INSERT into pages (url UNIQUE,
\* md5_hash UNIQUE); on sqlite3.IntegrityError nothing is written
WebsiteDatabase_save_page(pages, url, html) ==
    IF \E i \in 1..Len(pages) : pages[i].url = url \/ pages[i].md5_hash = md5(html)
    THEN pages
    ELSE Append(pages, [url |-> url, html |-> html, md5_hash |-> md5(html)])

\* WebsiteDatabase.cleanup_duplicates: "DELETE FROM pages WHERE id NOT IN
\* (SELECT MIN(id) FROM pages GROUP BY md5_hash)"; rows are kept in id order
cleanup_duplicates(pages) ==
    LET keep == {i \in 1..Len(pages) :
                    \A j \in 1..(i - 1) : pages[j].md5_hash # pages[i].md5_hash}
        kept[i \in 0..Len(pages)] ==
            IF i = 0 THEN <<>>
            ELSE IF i \in keep THEN Append(kept[i - 1], pages[i]) ELSE kept[i - 1]
    IN  kept[Len(pages)]

StoreInit ==
    /\ NormIdle
    /\ PCIdle
    /\ ArchIdle
    /\ AssetsIdle
    /\ RobotsIdle
    /\ FullIdle
    /\ PoliteIdle
    /\ CheckpointIdle
    /\ RewriteIdle
    /\ DocIdle
    /\ ConcIdle
    /\ FilesIdle
    /\ GatherIdle
    /\ site \in Sites
    /\ s_pages = <<>>
    /\ s_full_pages = <<>>
    /\ s_web_pages = <<>>
    /\ s_saves = 0

storeConfig == <<normVars, pcVars, archVars, assetVars, robotsVars, politeVars, checkpointVars, rewriteVars, docVars, concVars, fileVars, gatherVars, fullVars, site>>

\* CrawlerDatabase.save_page(url, html, status_code)
CrawlerSavePage ==
    /\ s_saves \in 0..(MaxSaves - 1)
    /\ \E url \in StoreUrls, html \in StoreHtmls :
           s_pages' = save_page(s_pages, url, html, 200)
    /\ s_saves' = s_saves + 1
    /\ UNCHANGED <<s_full_pages, s_web_pages, storeConfig>>

\* FullDB.save_page(url, html, path)
FullSavePage ==
    /\ s_saves \in 0..(MaxSaves - 1)
    /\ \E url \in StoreUrls, html \in StoreHtmls :
           s_full_pages' = FullDB_save_page(s_full_pages, url, html, _make_local_path(url))
    /\ s_saves' = s_saves + 1
    /\ UNCHANGED <<s_pages, s_web_pages, storeConfig>>

\* WebsiteDatabase.save_page(url, html)
WebsiteSavePage ==
    /\ s_saves \in 0..(MaxSaves - 1)
    /\ \E url \in StoreUrls, html \in StoreHtmls :
           s_web_pages' = WebsiteDatabase_save_page(s_web_pages, url, html)
    /\ s_saves' = s_saves + 1
    /\ UNCHANGED <<s_pages, s_full_pages, storeConfig>>

\* WebsiteDatabase.cleanup_duplicates()
CleanupDuplicates ==
    /\ s_saves \in 0..(MaxSaves - 1)
    /\ s_web_pages' = cleanup_duplicates(s_web_pages)
    /\ s_saves' = s_saves + 1
    /\ UNCHANGED <<s_pages, s_full_pages, storeConfig>>

StoreNext ==
    \/ CrawlerSavePage
    \/ FullSavePage
    \/ WebsiteSavePage
    \/ CleanupDuplicates

SpecStore == StoreInit /\ [][StoreNext]_vars

\* every row of the table before the step is a row of the table after it
rows_kept(before, after) ==
    \A i \in 1..Len(before) : \E j \in 1..Len(after) : after[j] = before[i]

\* C19: stored captures are append-only: once a page record has been
\* written, no later store operation (save_page of CrawlerDatabase or of
\* FullDB, cleanup_duplicates) changes or deletes it, also when the same URL
\* is saved again in a later run on the same database
C19_AppendOnly ==
    [][/\ rows_kept(s_pages, s_pages')
       /\ rows_kept(s_full_pages, s_full_pages')
       /\ rows_kept(s_web_pages, s_web_pages')]_vars

\* the part of C19 that holds: WebsiteDatabase.save_page and
\* cleanup_duplicates leave every stored row of their table as it is
C19_WebsiteAppendOnly ==
    [][rows_kept(s_web_pages, s_web_pages')]_vars

\* the part of C19 that holds: the inserts of the archiver leave every
\* committed page and CDX record as it is
C19_ArchiveAppendOnly ==
    [][/\ rows_kept(a_db.pages, a_db'.pages)
       /\ rows_kept(a_db.cdx_index, a_db'.cdx_index)]_vars

(***************************************************************************)
(* SpecPolite: when the v4 archiver starts its requests.  d_clock is       *)
(* time.time() in whole seconds; it moves on while the archiver awaits a   *)
(* sleep, a response or the downloads of a batch.  d_sent lists the        *)
(* requests to the crawled host in the order in which they start.          *)
(***************************************************************************)
\* largest Crawl-Delay of a robots.txt, in seconds
MaxDelay == 2
\* most seconds a response, or a batch of downloads, takes
MaxLatency == 2
\* most pages fetched in one run
MaxPolitePages == 3
\* most assets of one page that are on the crawled host
MaxPoliteAssets == 2

\* _download_assets: "batch_size = 10"
batch_size == 10

\* time.time() when the crawl loop starts: the epoch is further back than
\* any crawl delay
LoopStart == MaxDelay + 1

\* the requests of one kind in d_sent
sent_of(kind) == SelectSeq(d_sent, LAMBDA r : r.kind = kind)

\* respect_crawl_delay: the seconds it decides to sleep
crawl_wait(crawl_delay, now, last_crawl_time) ==
    IF crawl_delay > 0 /\ now - last_crawl_time < crawl_delay
    THEN crawl_delay - (now - last_crawl_time)
    ELSE 0

PoliteInit ==
    /\ NormIdle
    /\ PCIdle
    /\ ArchIdle
    /\ AssetsIdle
    /\ RobotsIdle
    /\ FullIdle
    /\ StoreIdle
    /\ CheckpointIdle
    /\ RewriteIdle
    /\ DocIdle
    /\ ConcIdle
    /\ FilesIdle
    /\ GatherIdle
    /\ site \in UniformSites
    /\ d_crawl_delay \in 0..MaxDelay
    /\ d_last_crawl_time = 0
    /\ d_clock = LoopStart
    /\ d_sent = <<>>
    /\ d_state = "loop"
    /\ d_assets = 0

politeConfig == <<normVars, pcVars, archVars, assetVars, robotsVars, checkpointVars, rewriteVars, docVars, concVars, fileVars, gatherVars, fullVars,
                  storeVars, site, d_crawl_delay>>

\* archive(): "await self.robots.respect_crawl_delay()"; asyncio.sleep
\* returns after the requested time or later
RespectCrawlDelay ==
    /\ d_state = "loop"
    /\ Len(sent_of("page")) < MaxPolitePages
    /\ LET wait == crawl_wait(d_crawl_delay, d_clock, d_last_crawl_time)
       IN  \E late \in {0, 1} :
               /\ wait = 0 => late = 0
               /\ d_clock' = d_clock + wait + late
    /\ d_last_crawl_time' = d_clock'
    /\ d_state' = "fetch"
    /\ UNCHANGED <<d_sent, d_assets, politeConfig>>

\* _fetch_page: session.get(url) starts now; the response arrives latency
\* seconds later and _process_page extracts the assets of the page
PoliteFetchPage ==
    /\ d_state = "fetch"
    /\ d_sent' = Append(d_sent, [kind |-> "page", start |-> d_clock])
    /\ \E latency \in 0..MaxLatency : d_clock' = d_clock + latency
    /\ \E n \in 0..MaxPoliteAssets :
           /\ d_assets' = n
           /\ d_state' = IF n > 0 THEN "assets" ELSE "loop"
    /\ UNCHANGED <<d_last_crawl_time, politeConfig>>

\* _download_assets: asyncio.gather starts the session.get of every asset of
\* the batch at once and returns when all of them are done
PoliteDownloadAssets ==
    /\ d_state = "assets"
    /\ LET n == IF d_assets < batch_size THEN d_assets ELSE batch_size
       IN  /\ d_sent' = d_sent \o [i \in 1..n |-> [kind |-> "asset", start |-> d_clock]]
           /\ d_assets' = d_assets - n
           /\ d_state' = IF d_assets - n > 0 THEN "assets" ELSE "loop"
    /\ \E latency \in 0..MaxLatency : d_clock' = d_clock + latency
    /\ UNCHANGED <<d_last_crawl_time, politeConfig>>

\* archive(): the while loop ends (queue empty or max_pages visited)
PoliteFinish ==
    /\ d_state = "loop"
    /\ d_state' = "done"
    /\ UNCHANGED <<d_last_crawl_time, d_clock, d_sent, d_assets, politeConfig>>

PoliteNext ==
    \/ RespectCrawlDelay
    \/ PoliteFetchPage
    \/ PoliteDownloadAssets
    \/ PoliteFinish

SpecPolite == PoliteInit /\ [][PoliteNext]_vars

\* every two successive requests of the list start at least d seconds apart
apart(sent, d) ==
    \A i \in 1..(Len(sent) - 1) : sent[i + 1].start - sent[i].start >= d

\* C20: politeness: with a crawl delay d > 0 taken from robots.txt, any two
\* successive requests the v4 archiver sends to the crawled host (page
\* fetches and the asset downloads of a page) start at least d apart
C20_Politeness ==
    d_crawl_delay > 0 => apart(d_sent, d_crawl_delay)

\* the part of C20 that holds: two successive page fetches start at least d
\* apart
C20_PageFetchesApart ==
    d_crawl_delay > 0 => apart(sent_of("page"), d_crawl_delay)

\* the step is a pass of the v4 loop whose page arrived and whose parsing
\* failed: BeautifulSoup raised, or the extraction of the links raised
ParseFailureStep == ArchiveProcessError \/ ArchiveLinkError

\* the bytes of the page at the head of the frontier are new to the archive
new_capture ==
    /\ \A i \in 1..Len(a_conn.cdx_index) :
           a_conn.cdx_index[i].payload_digest # sha256(page_html(a_url))
    /\ pages_for(a_conn, a_url) = <<>>

\* C23: a failure while parsing a fetched page's HTML or extracting its
\* links never aborts the crawl and never loses the page: the Page Record
\* for the retrieved bytes is still stored and the loop continues with the
\* next frontier entry
C23_ParseFailureKeepsPage ==
    [][(ParseFailureStep /\ new_capture) =>
           /\ pages_for(a_conn', a_url) # <<>>
           /\ a_state' = "loop"
           /\ a_queue' = Tail(a_queue)]_vars

\* the part of C23 that holds: when the extraction of the links fails the
\* Page Record is stored, no link is queued and the loop goes on; when
\* BeautifulSoup fails the loop goes on as well
C23_LinkFailureKeepsPage ==
    [][/\ (ArchiveLinkError /\ new_capture) =>
              /\ pages_for(a_conn', a_url) # <<>>
              /\ a_state' = "loop"
              /\ a_queue' = Tail(a_queue)
       /\ ArchiveProcessError => (a_state' = "loop" /\ a_queue' = Tail(a_queue))]_vars

\* an Error Record of kind DB_ERROR was written in this run
db_error_logged ==
    \E i \in 1..Len(a_conn.error_log) : a_conn.error_log[i].error_type = "DB_ERROR"

\* C24: a storage error while writing a page (a database write failure other
\* than a uniqueness conflict) stops the v4 run: a checkpoint is flushed and
\* no further frontier entry is fetched after it
C24_StorageErrorStops ==
    [][db_error_logged => Len(a_fetched') <= Len(a_fetched)]_vars

\* the part of C24 that holds: the run that met a storage error still ends
\* with its final checkpoint once the loop is over
C24_CheckpointAtEnd ==
    (db_error_logged /\ a_state \in {"finalize", "done"}) =>
        \E i \in 1..Len(a_db.crawl_state) :
            /\ a_db.crawl_state[i].session_id = a_session_id
            /\ a_db.crawl_state[i].total_urls_processed = Cardinality(DOMAIN a_visited)

\* C25: every started run eventually ends by producing its summary
\* (ProductionCrawler.run returns its result dictionary), whatever failures
\* individual fetches hit, an unexpected exception raised inside a single
\* fetch included
C25_RunEndsWithSummary == <>(p_state = "done")

\* the part of C25 that holds: the v4 archiver reaches the end of _finalize,
\* whatever failures its fetches hit
C25_ArchiveReachesFinalize == <>(a_state = "done")

\* the part of C25 that holds: a run of ProductionCrawler in which no fetch
\* has raised gets to its summary
C25_SummaryUnlessRaised == <>(p_state \in {"done", "raised"})

\* the Asset Records of a URL
assets_for(t, url) == SelectSeq(t.assets, LAMBDA r : r.url = url)

\* C26: an asset URL that already has an Asset Record is not downloaded
\* again: across the pages of one run no request is sent for a URL whose
\* Asset Record is in the store
C26_NoSecondDownload ==
    \A t \in 1..Len(x_tasks) :
        x_tasks[t].pc = "get" => assets_for(x_db, x_tasks[t].url) = <<>>

\* the part of C26 that holds: a URL has at most one Asset Record, and a
\* committed Asset Record is never changed by a later save
C26_RecordKept ==
    [][/\ \A url \in AssetURLs : Len(assets_for(x_db', url)) <= 1
       /\ \A i \in 1..Len(x_db.assets) : x_db'.assets[i] = x_db.assets[i]]_vars

\* C27: frontier entries are dequeued in discovery order: every pass of the
\* crawl loop of the v4 archiver and of ProductionCrawler takes the oldest
\* entry of the queue, the URL it fetches is the URL of that entry, and new
\* entries go behind the ones that wait, so a URL enqueued before another
\* is fetched before it
C27_FifoOrder ==
    [][/\ (a_state = "loop" /\ a_state' = "loop" /\ a_queue # <<>>) =>
              /\ StartsWith(a_queue', Tail(a_queue))
              /\ a_fetched' # a_fetched =>
                     a_fetched' = Append(a_fetched, Head(a_queue)[1])
       /\ (p_state = "loop" /\ p_queue' # p_queue) => p_queue' = Tail(p_queue)
       /\ (p_state = "loop" /\ p_visited' # p_visited) =>
              p_url' = normalize(Head(p_queue))
       /\ p_state = "fetch" => StartsWith(p_queue', p_queue)]_vars

\* a v4 run without failures on a site whose first page links to /b and then
\* to /p/s has fetched the two in that order
C27_Witness ==
    /\ a_state = "done"
    /\ a_faults = 0
    /\ a_sitemap = <<>>
    /\ site[Root] = <<Root, PageB, PageS>>
    /\ a_fetched = <<Root, PageB, PageS>>

(***************************************************************************)
(* SpecCheckpoint: the crawl loop of archive() over a run long enough to   *)
(* reach its checkpoints.  What _save_checkpoint stores in                 *)
(* total_urls_processed is len(self.visited), so the run is followed by    *)
(* the length of visited and the length of the queue alone.                *)
(***************************************************************************)
\* largest max_pages of a long run
MaxCheckpointPages == 120
\* most entries waiting in the queue of a long run
MaxCheckpointQueue == 3
\* most links of one page that are appended to the queue
MaxCheckpointLinks == 2

CheckpointInit ==
    /\ NormIdle
    /\ PCIdle
    /\ ArchIdle
    /\ AssetsIdle
    /\ RobotsIdle
    /\ FullIdle
    /\ StoreIdle
    /\ PoliteIdle
    /\ RewriteIdle
    /\ DocIdle
    /\ ConcIdle
    /\ FilesIdle
    /\ GatherIdle
    /\ site \in UniformSites
    /\ c_max_pages \in 1..MaxCheckpointPages
    /\ c_visited = 0
    /\ c_queue = 1
    /\ c_stored = 0
    /\ c_state = "loop"

checkpointConfig == <<normVars, pcVars, archVars, assetVars, robotsVars, rewriteVars, docVars, concVars, fileVars, gatherVars,
                      fullVars, storeVars, politeVars, site, c_max_pages>>

\* "while self.queue and len(self.visited) < self.max_pages"
CheckpointInLoop ==
    /\ c_state = "loop"
    /\ c_queue > 0
    /\ c_visited < c_max_pages

\* "if url in self.visited or depth > self.max_depth: continue"
CheckpointSkip ==
    /\ CheckpointInLoop
    /\ c_queue' = c_queue - 1
    /\ UNCHANGED <<c_visited, c_stored, c_state, checkpointConfig>>

\* a pass that fetches: "self.visited[url] = depth", _fetch_page, which may
\* append links to the queue, and the checkpoint at every checkpoint_interval
\* visited URLs
CheckpointPass ==
    /\ CheckpointInLoop
    /\ c_visited' = c_visited + 1
    /\ \E links \in 0..MaxCheckpointLinks :
           /\ c_queue - 1 + links <= MaxCheckpointQueue
           /\ c_queue' = c_queue - 1 + links
    /\ c_stored' = IF checkpoint_due(c_visited') THEN c_visited' ELSE c_stored
    /\ UNCHANGED <<c_state, checkpointConfig>>

\* the loop condition fails: "# Final checkpoint"
CheckpointLast ==
    /\ c_state = "loop"
    /\ ~CheckpointInLoop
    /\ c_stored' = c_visited
    /\ c_state' = "finalize"
    /\ UNCHANGED <<c_visited, c_queue, checkpointConfig>>

CheckpointNext == CheckpointSkip \/ CheckpointPass \/ CheckpointLast

SpecCheckpoint == CheckpointInit /\ [][CheckpointNext]_vars

\* C28: checkpoint freshness: between two fetches of the v4 crawl loop the
\* total_urls_processed stored in the session's crawl_state row is never
\* more than 49 behind the number of visited URLs, it never decreases, and
\* after the loop ends it equals the number of visited URLs
C28_CheckpointFreshness ==
    /\ [](c_state = "loop" =>
              (c_stored <= c_visited /\ c_visited - c_stored <= 49))
    /\ [](c_state = "finalize" => c_stored = c_visited)
    /\ [][c_stored' >= c_stored]_vars

\* a run that wrote its checkpoint at 50 visited URLs and has visited 49
\* URLs since
C28_Witness ==
    /\ c_state = "loop"
    /\ c_stored = 50
    /\ c_visited = 99

(***************************************************************************)
(* Canonical form of URLNormalizer.normalize.                              *)
(***************************************************************************)
PageOne == <<"p", "a", "g", "e", "=", "1">>

\* the query string without its page=1 pieces, the other pieces in their order
without_page_one(query) ==
    Join(SelectSeq(Split(query, "&"), LAMBDA p : p # PageOne), "&")

\* the URL with one of its parts replaced
with_case(url) ==
    urlunparse([urlparse(url) EXCEPT !.scheme = Lower(@), !.netloc = Lower(@)])
with_slash(url) == urlunparse([urlparse(url) EXCEPT !.path = @ \o <<"/">>])
without_page(url) ==
    urlunparse([urlparse(url) EXCEPT !.query = without_page_one(@)])

\* a non-root path that does not end with a slash
plain_path(url) ==
    /\ urlparse(url).path \notin {<<>>, <<"/">>}
    /\ ~EndsWithSlash(urlparse(url).path)

\* every piece of the query is name=value
plain_query(url) ==
    \A i \in 1..Len(Split(urlparse(url).query, "&")) :
        FindAny(Split(urlparse(url).query, "&")[i], {"="}) > 1

\* C29: the normalized URL is the same for the URL in lower-case scheme and
\* host, for the URL with one trailing slash added to its non-root path and
\* for the URL without its page=1 parameter, and the remaining query
\* parameters come out in the order they were given.
C29_Canonical ==
    nStep >= 1 =>
        /\ normalize(with_case(nIn)) = nOnce
        /\ plain_path(nIn) => normalize(with_slash(nIn)) = nOnce
        /\ normalize(without_page(nIn)) = nOnce
        /\ plain_query(nIn) =>
               urlparse(nOnce).query = without_page_one(urlparse(nIn).query)

\* C29: what holds of it: letter case of scheme and host and one trailing
\* slash on a non-root path make no difference to the normalized URL.
C29_CaseAndSlash ==
    nStep >= 1 =>
        /\ normalize(with_case(nIn)) = nOnce
        /\ plain_path(nIn) => normalize(with_slash(nIn)) = nOnce

\* C29: the page=1 parameter is kept by normalize.
C29_PageOneKept ==
    (nStep >= 1 /\ urlparse(nIn).query = PageOne) => urlparse(nOnce).query = PageOne

\* C29: the query parameters of the normalized URL are in sorted order.
C29_QuerySorted ==
    (nStep >= 1 /\ plain_query(nIn)) =>
        urlparse(nOnce).query = sorted_query(urlparse(nIn).query)

(***************************************************************************)
(* URLRewriter._convert_url (scripts/url_rewriter_optimized.py).           *)
(***************************************************************************)
\* URLRewriter(domain=...)
domain == <<"a", ".", "b">>

\* the characters that end group 1 of the 'http' pattern: [^\s"\x27<>]
Stop == {" ", "\"", "'", "<", ">"}

\* [^\s"\x27<>]* at the start of s: the longest run without such a character
run(s) == IF FindAny(s, Stop) = 0 THEN s ELSE Before(s, FindAny(s, Stop))

\* re.escape(domain) followed by (/[^\s"\x27<>]*), re.IGNORECASE, at the start
\* of s: <<group 1>> when it matches, <<>> when it does not
match_domain(s) ==
    IF StartsWith(Lower(s), Lower(domain) \o <<"/">>)
    THEN <<run(From(s, Len(domain) + 1))>>
    ELSE <<>>

\* (?:https?://)? with re.IGNORECASE: the length of the scheme part, 0 if none
scheme_len(url) ==
    IF StartsWith(Lower(url), <<"h", "t", "t", "p", "s", ":", "/", "/">>) THEN 8
    ELSE IF StartsWith(Lower(url), <<"h", "t", "t", "p", ":", "/", "/">>) THEN 7
    ELSE 0

\* self.url_patterns['http'].match(url): the optional scheme is tried first,
\* then the pattern without it
http_match(url) ==
    IF scheme_len(url) > 0 /\ match_domain(From(url, scheme_len(url) + 1)) # <<>>
    THEN match_domain(From(url, scheme_len(url) + 1))
    ELSE match_domain(url)

\* URLRewriter._convert_url
_convert_url(url) ==
    IF url = <<>> \/ StartsWith(url, <<"#">>) THEN url
    ELSE IF \/ StartsWith(url, <<"/", "/">>)
            \/ StartsWith(url, <<"d", "a", "t", "a", ":">>)
            \/ StartsWith(url, <<"b", "l", "o", "b", ":">>)
    THEN url
    ELSE IF http_match(url) # <<>> THEN http_match(url)[1]
    ELSE url

\* The URLs handed to _convert_url: what precedes the host, the host (the
\* domain in two letter cases, two other hosts, none), a path and what follows.
RewritePrefixes == {<<>>,
                    <<"h", "t", "t", "p", ":", "/", "/">>,
                    <<"h", "t", "t", "p", "s", ":", "/", "/">>,
                    <<"H", "T", "T", "P", "S", ":", "/", "/">>,
                    <<"/", "/">>,
                    <<"#">>,
                    <<"d", "a", "t", "a", ":">>,
                    <<"b", "l", "o", "b", ":">>}
RewriteHosts == {<<>>, <<"a", ".", "b">>, <<"A", ".", "B">>, <<"b", ".", "a">>,
                 <<"a", "x", "b">>}
RewriteSuffixes == {<<>>, <<"?", "q", "=", "1">>, <<"#", "x">>,
                    <<"?", "q", "=", "'", "x", "'">>}
RewriteURLs ==
    {pre \o h \o p \o suf : pre \in RewritePrefixes, h \in RewriteHosts,
                            p \in InputPaths, suf \in RewriteSuffixes}

RewriteInit ==
    /\ NormIdle
    /\ PCIdle
    /\ ArchIdle
    /\ AssetsIdle
    /\ RobotsIdle
    /\ FullIdle
    /\ StoreIdle
    /\ PoliteIdle
    /\ CheckpointIdle
    /\ SiteIdle
    /\ DocIdle
    /\ ConcIdle
    /\ FilesIdle
    /\ GatherIdle
    /\ w_url \in RewriteURLs
    /\ w_out = <<>>
    /\ w_step = 0

rewriteConfig == <<normVars, pcVars, archVars, assetVars, robotsVars, docVars, concVars, fileVars, gatherVars, fullVars,
                   storeVars, politeVars, checkpointVars, site, w_url>>

ConvertUrl ==
    /\ w_step = 0
    /\ w_out' = _convert_url(w_url)
    /\ w_step' = 1
    /\ UNCHANGED rewriteConfig

RewriteNext == ConvertUrl

SpecRewrite == RewriteInit /\ [][RewriteNext]_vars

\* an absolute http/https URL of the configured domain: the scheme, the
\* domain in any letter case, and the authority ends there
on_domain(url) ==
    /\ scheme_len(url) > 0
    /\ StartsWith(Lower(From(url, scheme_len(url) + 1)), Lower(domain))
    /\ \/ Len(url) = scheme_len(url) + Len(domain)
       \/ url[scheme_len(url) + Len(domain) + 1] \in {"/", "?", "#"}

\* what follows the authority: path, query and fragment
rest_of(url) == From(url, scheme_len(url) + Len(domain) + 1)

\* C30: _convert_url returns path, query and fragment of an absolute
\* http/https URL of the configured domain (any letter case) that has a path,
\* and returns every other input as it was given.
C30_ConvertUrl ==
    w_step = 1 =>
        IF on_domain(w_url)
        THEN StartsWith(rest_of(w_url), <<"/">>) => w_out = rest_of(w_url)
        ELSE w_out = w_url

\* C30: the same, for the inputs that hold no quote and do not begin with
\* the domain itself.
C30_PlainInputs ==
    (/\ w_step = 1
     /\ FindAny(w_url, Stop) = 0
     /\ ~StartsWith(Lower(w_url), Lower(domain))) =>
        IF on_domain(w_url)
        THEN StartsWith(rest_of(w_url), <<"/">>) => w_out = rest_of(w_url)
        ELSE w_out = w_url

\* C30: an input without scheme that begins with the domain and a slash is
\* converted as well, and the result ends before the first quote.
C30_SchemelessConverted ==
    (w_step = 1 /\ StartsWith(Lower(w_url), Lower(domain) \o <<"/">>)) =>
        w_out = run(From(w_url, Len(domain) + 1))

\* C30: a URL of the domain without a path is returned as it was given.
C30_NoPathUnchanged ==
    (w_step = 1 /\ on_domain(w_url) /\ ~StartsWith(rest_of(w_url), <<"/">>)) =>
        w_out = w_url

(***************************************************************************)
(* URLRewriter._process_html and _process_css.  A document is what the     *)
(* calls look at: whether it has a <head>, whether it has a <base>, and    *)
(* the URLs of its attributes (HTML) or of its url()/@import rules (CSS).  *)
(***************************************************************************)
\* most URLs of one document
MaxRefs == 2

DocUrls == {<<"/", "b">>,
            <<"h", "t", "t", "p", ":", "/", "/", "b", ".", "a", "/", "b">>,
            <<"h", "t", "t", "p", ":", "/", "/", "a", ".", "b", "/", "b">>,
            <<"H", "T", "T", "P", ":", "/", "/", "A", ".", "B", "/", "b">>,
            <<"h", "t", "t", "p", ":", "/", "/", "a", ".", "b", "b", "/", "b">>}

RECURSIVE RefsOfLen(_)
RefsOfLen(n) ==
    IF n = 0 THEN {<<>>}
    ELSE {Append(r, u) : r \in RefsOfLen(n - 1), u \in DocUrls}

Docs ==
    {[head |-> hd, base |-> bs, refs |-> r] :
        hd \in BOOLEAN, bs \in BOOLEAN,
        r \in UNION {RefsOfLen(n) : n \in 0..MaxRefs}}

\* the number of attributes whose URL _convert_url changes
RECURSIVE converted(_)
converted(refs) ==
    IF refs = <<>> THEN 0
    ELSE (IF _convert_url(Head(refs)) # Head(refs) THEN 1 ELSE 0)
         + converted(Tail(refs))

\* "if head and not soup.find('base')": a <base href="/"> is put into <head>
base_added(doc) == doc.head /\ ~doc.base

\* changes counted by _process_html with BeautifulSoup
html_changes(doc) == (IF base_added(doc) THEN 1 ELSE 0) + converted(doc.refs)

\* str(soup) after the changes
html_output(doc) ==
    [head |-> doc.head,
     base |-> doc.base \/ base_added(doc),
     refs |-> [i \in 1..Len(doc.refs) |-> _convert_url(doc.refs[i])]]

\* 'https?://' + re.escape(domain), re.IGNORECASE, at the start of the
\* attribute value: what re.sub leaves of the value (_process_html_regex)
regex_ref(v) ==
    IF scheme_len(v) > 0 /\ StartsWith(Lower(From(v, scheme_len(v) + 1)), Lower(domain))
    THEN From(v, scheme_len(v) + Len(domain) + 1)
    ELSE v

\* '(?:https?://)?' + re.escape(domain) + group 1, re.IGNORECASE, at the start
\* of the value of url(...) or @import "...": group 1 replaces the value
css_ref(v) ==
    IF scheme_len(v) > 0 /\ StartsWith(Lower(From(v, scheme_len(v) + 1)), Lower(domain))
    THEN From(v, scheme_len(v) + Len(domain) + 1)
    ELSE IF StartsWith(Lower(v), Lower(domain)) THEN From(v, Len(domain) + 1)
    ELSE v

sub_refs(doc, f(_)) == [doc EXCEPT !.refs = [i \in 1..Len(@) |-> f(@[i])]]

\* URLRewriter._process_html: <<modified, content>>
_process_html(bs4_available, doc) ==
    IF ~bs4_available
    THEN <<sub_refs(doc, regex_ref) # doc, sub_refs(doc, regex_ref)>>
    ELSE IF html_changes(doc) > 0 THEN <<TRUE, html_output(doc)>>
    ELSE <<FALSE, doc>>

\* URLRewriter._process_css: <<modified, content>>
_process_css(doc) == <<sub_refs(doc, css_ref) # doc, sub_refs(doc, css_ref)>>

DocInit ==
    /\ NormIdle
    /\ PCIdle
    /\ ArchIdle
    /\ AssetsIdle
    /\ RobotsIdle
    /\ FullIdle
    /\ StoreIdle
    /\ PoliteIdle
    /\ CheckpointIdle
    /\ RewriteIdle
    /\ SiteIdle
    /\ ConcIdle
    /\ FilesIdle
    /\ GatherIdle
    /\ h_doc \in Docs
    /\ h_bs4 \in BOOLEAN
    /\ h_modified = FALSE
    /\ h_result = h_doc
    /\ h_step = 0

docConfig == <<normVars, pcVars, archVars, assetVars, robotsVars, concVars, fileVars, gatherVars, fullVars,
               storeVars, politeVars, checkpointVars, rewriteVars, site,
               h_doc, h_bs4>>

ProcessHtml ==
    /\ h_step = 0
    /\ h_modified' = _process_html(h_bs4, h_doc)[1]
    /\ h_result' = _process_html(h_bs4, h_doc)[2]
    /\ h_step' = 1
    /\ UNCHANGED docConfig

\* a CSS file has neither <head> nor <base>
ProcessCss ==
    /\ h_step = 0
    /\ ~h_doc.head /\ ~h_doc.base
    /\ h_modified' = _process_css(h_doc)[1]
    /\ h_result' = _process_css(h_doc)[2]
    /\ h_step' = 2
    /\ UNCHANGED docConfig

DocNext == ProcessHtml \/ ProcessCss

SpecDoc == DocInit /\ [][DocNext]_vars

\* the document holds a URL of the configured domain
has_domain_url(doc) == \E i \in 1..Len(doc.refs) : on_domain(doc.refs[i])

\* C31: for a document without a URL of the configured domain _process_html
\* and _process_css report 'not modified' and return the content unchanged.
C31_NoChanges ==
    (h_step \in {1, 2} /\ ~has_domain_url(h_doc)) =>
        (~h_modified /\ h_result = h_doc)

\* C31: the same for _process_html with BeautifulSoup and a document that has
\* no <head> or has a <base> already.
C31_NoChangesWithoutHead ==
    (h_step = 1 /\ h_bs4 /\ ~has_domain_url(h_doc) /\ ~base_added(h_doc)) =>
        (~h_modified /\ h_result = h_doc)

\* C31: with BeautifulSoup a document that has a <head> and no <base> is
\* reported as modified, whatever its URLs are.
C31_BaseTagAdded ==
    (h_step = 1 /\ h_bs4 /\ base_added(h_doc)) =>
        (h_modified /\ h_result.base /\ h_result # h_doc)

\* a Crawl-Delay or Request-Rate line that stands in no group of the crawler
Foreign(content, j) ==
    /\ content[j].name \in {"crawl-delay", "request-rate"}
    /\ ~InCrawlerGroup(content, j)

\* the robots.txt without its foreign directives: each is replaced by a
\* Disallow line, which no parser reads a delay from
own_lines(content) ==
    [j \in 1..Len(content) |->
        IF Foreign(content, j) THEN [name |-> "disallow", value |-> <<"/">>]
        ELSE content[j]]

\* C32: the effective delay after parsing is the one the robots.txt gives
\* without the Crawl-Delay and Request-Rate lines of groups for other user
\* agents, wherever those groups stand.
C32_ForeignIgnored ==
    /\ r_state \in {"parsed", "checked"} =>
           r_crawl_delay = parse_robots_txt(own_lines(r_content)).crawl_delay
    /\ r_state = "parsed_v4" =>
           r_crawl_delay = first_crawl_delay(own_lines(r_content))

\* C32: robot_parser.py ignores the foreign directives that stand above the
\* first User-agent line matching the crawler.
C32_ForeignBeforeMatchIgnored ==
    (/\ r_state \in {"parsed", "checked"}
     /\ \A j \in 1..Len(r_content) :
            Foreign(r_content, j) =>
                \A i \in 1..(j - 1) :
                    r_content[i].name = "user-agent" => ~agent_matches(r_content[i].value)) =>
        r_crawl_delay = parse_robots_txt(own_lines(r_content)).crawl_delay

\* C32: the v4 parser takes the first Crawl-Delay number of the file.
C32_V4TakesFirst ==
    r_state = "parsed_v4" =>
        \/ r_crawl_delay = 0 /\ \A j \in 1..Len(r_content) :
               ~(r_content[j].name = "crawl-delay" /\ IsFloat(r_content[j].value))
        \/ \E j \in 1..Len(r_content) :
               /\ r_content[j].name = "crawl-delay"
               /\ IsFloat(r_content[j].value)
               /\ r_crawl_delay = float(r_content[j].value)
               /\ \A k \in 1..(j - 1) :
                      ~(r_content[k].name = "crawl-delay" /\ IsFloat(r_content[k].value))

(***************************************************************************)
(* SpecConc: the crawl loop of the v4 archiver and _download_assets (the   *)
(* v2 archiver's _download_assets_batch has the same loop), as counts of   *)
(* what is in progress.                                                    *)
(***************************************************************************)
\* max_pages of the run
MaxConcPages == 3
\* most frontier entries at a time
MaxConcQueue == 3
\* most links appended by one page
MaxConcLinks == 2
\* most assets extract_assets finds on one page
MaxPageAssets == 21

\* "batch = assets[i:i+batch_size]" taken at once for every asset: the size
\* of a batch that is the whole list
batch_all(remaining) == remaining

\* "batch = assets[i:i+batch_size]": the size of the next batch
batch(remaining) == IF remaining < batch_size THEN remaining ELSE batch_size

ConcInit ==
    /\ NormIdle
    /\ PCIdle
    /\ ArchIdle
    /\ AssetsIdle
    /\ RobotsIdle
    /\ FullIdle
    /\ StoreIdle
    /\ PoliteIdle
    /\ CheckpointIdle
    /\ RewriteIdle
    /\ DocIdle
    /\ SiteIdle
    /\ FilesIdle
    /\ GatherIdle
    /\ g_queue = 1
    /\ g_visited = 0
    /\ g_fetching = 0
    /\ g_assets = 0
    /\ g_inflight = 0
    /\ g_state = "loop"

concConfig == <<normVars, pcVars, archVars, assetVars, robotsVars, fileVars, gatherVars, fullVars,
                storeVars, politeVars, checkpointVars, rewriteVars, docVars,
                site>>

\* "while self.queue and len(self.visited) < self.max_pages"
ConcInLoop == g_state = "loop" /\ g_queue > 0 /\ g_visited < MaxConcPages

\* "url, depth = self.queue.pop(0)" and "continue"
ConcSkip ==
    /\ ConcInLoop
    /\ g_queue' = g_queue - 1
    /\ UNCHANGED <<concConfig, g_visited, g_fetching, g_assets, g_inflight, g_state>>

\* "url, depth = self.queue.pop(0)" ... "await self._fetch_page(...)" is entered
ConcDequeue ==
    /\ ConcInLoop
    /\ g_queue' = g_queue - 1
    /\ g_visited' = g_visited + 1
    /\ g_fetching' = g_fetching + 1
    /\ g_state' = "fetch"
    /\ UNCHANGED <<concConfig, g_assets, g_inflight>>

\* _fetch_page returns without a page: status, content type, exception,
\* duplicate
ConcNoPage ==
    /\ g_state = "fetch"
    /\ g_fetching' = g_fetching - 1
    /\ g_state' = "loop"
    /\ UNCHANGED <<concConfig, g_queue, g_visited, g_assets, g_inflight>>

\* _process_page stores the page; "if assets: await self._download_assets":
\* the first batch is gathered
ConcPage ==
    /\ g_state = "fetch"
    /\ \E n \in 0..MaxPageAssets :
        /\ g_inflight' = batch(n)
        /\ g_assets' = n - batch(n)
    /\ g_state' = "gather"
    /\ UNCHANGED <<concConfig, g_queue, g_visited, g_fetching>>

\* one _download_single_asset coroutine of the batch ends (with a result or
\* an exception: return_exceptions=True)
ConcAssetDone ==
    /\ g_state = "gather"
    /\ g_inflight > 0
    /\ g_inflight' = g_inflight - 1
    /\ UNCHANGED <<concConfig, g_queue, g_visited, g_fetching, g_assets, g_state>>

\* asyncio.gather returns, "for i in range(0, len(assets), batch_size)"
\* goes on with the next batch
ConcNextBatch ==
    /\ g_state = "gather"
    /\ g_inflight = 0
    /\ g_assets > 0
    /\ g_inflight' = batch(g_assets)
    /\ g_assets' = g_assets - batch(g_assets)
    /\ UNCHANGED <<concConfig, g_queue, g_visited, g_fetching, g_state>>

\* _download_assets returns; the links are appended to the queue and
\* _fetch_page returns
ConcLinks ==
    /\ g_state = "gather"
    /\ g_inflight = 0
    /\ g_assets = 0
    /\ \E k \in 0..MaxConcLinks :
        /\ g_queue + k <= MaxConcQueue
        /\ g_queue' = g_queue + k
    /\ g_fetching' = g_fetching - 1
    /\ g_state' = "loop"
    /\ UNCHANGED <<concConfig, g_visited, g_assets, g_inflight>>

\* the loop ends
ConcFinish ==
    /\ g_state = "loop"
    /\ ~ConcInLoop
    /\ g_state' = "done"
    /\ UNCHANGED <<concConfig, g_queue, g_visited, g_fetching, g_assets, g_inflight>>

ConcNext ==
    \/ ConcSkip
    \/ ConcDequeue
    \/ ConcNoPage
    \/ ConcPage
    \/ ConcAssetDone
    \/ ConcNextBatch
    \/ ConcLinks
    \/ ConcFinish

SpecConc == ConcInit /\ [][ConcNext]_vars

\* C33: at most one page fetch is in progress, at most 10 asset downloads
\* are in flight, and a frontier entry is dequeued only when no page fetch
\* and no asset download is in progress.
C33_BoundedConcurrency ==
    /\ [](g_fetching <= 1 /\ g_inflight <= 10)
    /\ [][g_queue' < g_queue => (g_inflight = 0 /\ g_assets = 0 /\ g_fetching = 0)]_vars

\* a full batch is in flight while a second full batch of the page waits
C33_Witness ==
    /\ g_fetching = 1
    /\ g_inflight = 10
    /\ g_assets > 10

\* the URL has the host of the start URL
same_host(url) == Lower(urlparse(url).netloc) = Lower(urlparse(a_start_url).netloc)

\* C34: every URL the v4 archiver fetches as a page has the host of the
\* start URL, whether it came from the start URL, the sitemap or a link.
C34_DomainScope == \A i \in 1..Len(a_fetched) : same_host(a_fetched[i])

\* C34: the same for the runs whose sitemap names URLs of the start host only.
C34_DomainScopeOfLinks ==
    (\A i \in 1..Len(a_sitemap) : same_host(a_sitemap[i])) =>
        \A i \in 1..Len(a_fetched) : same_host(a_fetched[i])

\* C34: every fetched URL of another host is an entry of the sitemap.
C34_ForeignFromSitemap ==
    \A i \in 1..Len(a_fetched) :
        ~same_host(a_fetched[i]) => \E j \in 1..Len(a_sitemap) : a_sitemap[j] = a_fetched[i]

\* the depths of the frontier entries do not decrease from the head on
depth_sorted(queue) ==
    \A i, j \in 1..Len(queue) : i <= j => queue[i][2] <= queue[j][2]

\* C35: the archiver dequeues in non-decreasing depth order: the frontier is
\* sorted by depth, a pass of the loop records the depth of the oldest entry
\* for the URL it visits and leaves no shallower entry behind, so no entry
\* of a visited URL is shallower than the depth recorded for it.
C35_BreadthFirst ==
    /\ [](/\ depth_sorted(a_queue)
          /\ \A i \in 1..Len(a_queue) :
                 a_queue[i][1] \in DOMAIN a_visited =>
                     a_visited[a_queue[i][1]] <= a_queue[i][2])
    /\ [][(a_state = "loop" /\ a_state' = "loop" /\ a_queue # <<>>) =>
             /\ a_queue' # <<>> => Head(a_queue)[2] <= Head(a_queue')[2]
             /\ a_visited' # a_visited =>
                    a_visited' = (Head(a_queue)[1] :> Head(a_queue)[2]) @@ a_visited]_vars

\* a URL visited at depth 1 that still waits in the frontier at depth 2
C35_Witness ==
    /\ a_state = "loop"
    /\ \E i \in 1..Len(a_queue) :
           /\ a_queue[i][2] = 2
           /\ a_queue[i][1] \in DOMAIN a_visited
           /\ a_visited[a_queue[i][1]] = 1

\* the visited URLs the statistics of ProductionCrawler account for
counted_outcomes ==
    p_stats.total_fetched + p_stats.total_errors
        + p_http_errors[400] + p_http_errors[403] + p_http_errors[404]

\* C36: whenever no fetch is in progress, total_fetched + total_errors + the
\* sum of the http_errors counts equals the number of visited URLs.
C36_OutcomeAccounting ==
    p_state \in {"loop", "done", "raised"} =>
        counted_outcomes = Cardinality(p_visited)

\* a finished run with one fetched page and one URL given up as an error
C36_Witness ==
    /\ p_state = "done"
    /\ p_stats.total_fetched = 1
    /\ p_stats.total_errors = 1
    /\ Cardinality(p_visited) = 2

(***************************************************************************)
(* SpecConstruct: ProfessionalArchiver.__init__ of smart_archiver_v4.py.   *)
(***************************************************************************)
\* the statements of __init__ in the order they are written: the attribute
\* each assigns, or the method it calls
InitStatements ==
    <<"start_url", "domain", "domain_safe", "archive_path", "pages_dir",
      "assets_dir", "images_dir", "css_dir", "js_dir", "fonts_dir", "warc_dir",
      "db_path", "mkdir", "max_depth", "max_pages", "conn", "_init_db",
      "extractor", "visited", "queue", "stats", "errors", "session_id",
      "robots">>

\* the attributes the object has when statement k runs
attributes_at(k) == {InitStatements[i] : i \in 1..(k - 1)}

\* the place of the call "self._init_db()"
init_db_at == CHOOSE k \in 1..Len(InitStatements) : InitStatements[k] = "_init_db"

\* the attributes _init_db reads: self.conn, self.session_id
init_db_reads == {"conn", "session_id"}

\* the archive database found on disk: none yet, or the one of an earlier
\* session
FoundTables ==
    {EmptyTables,
     [EmptyTables EXCEPT !.crawl_state =
         <<[session_id |-> 9, last_url_processed |-> -1,
            total_urls_processed |-> 2, status |-> "completed"]>>]}

ConstructInit ==
    /\ NormIdle
    /\ PCIdle
    /\ AssetsIdle
    /\ RobotsIdle
    /\ FullIdle
    /\ StoreIdle
    /\ PoliteIdle
    /\ CheckpointIdle
    /\ RewriteIdle
    /\ DocIdle
    /\ ConcIdle
    /\ FilesIdle
    /\ GatherIdle
    /\ site \in Sites
    /\ a_max_pages \in 1..MaxArchivePages
    /\ a_max_depth \in 0..MaxDepth
    /\ a_visited = <<>>
    /\ a_queue = <<>>
    /\ a_db \in FoundTables
    /\ a_conn = a_db
    /\ a_state = "new"
    /\ a_session_id = 0
    /\ a_fetched = <<>>
    /\ a_archived = {}
    /\ a_edition = 0
    /\ a_sitemap \in Sitemaps
    /\ a_faults = 0

\* ProfessionalArchiver(start_url, ...): _init_db raises AttributeError when
\* it reads an attribute the object does not have yet (the tables exist then,
\* no crawl_state row was written); otherwise the object is set up
Construct ==
    /\ a_state = "new"
    /\ IF init_db_reads \subseteq attributes_at(init_db_at)
       THEN /\ a_session_id' = 1
            /\ a_db' = init_crawl_state(a_db, 1)
            /\ a_conn' = a_db'
            /\ a_queue' = <<<<a_start_url, 0>>>>
            /\ a_state' = "start"
       ELSE /\ a_state' = "init_raised"
            /\ UNCHANGED <<a_session_id, a_db, a_conn, a_queue>>
    /\ UNCHANGED <<archConfig, a_visited, a_fetched, a_archived, a_faults>>

ConstructNext == Construct

SpecConstruct == ConstructInit /\ [][ConstructNext]_vars

\* the crawl_state rows of a session
session_rows(t, session_id) ==
    SelectSeq(t.crawl_state, LAMBDA r : r.session_id = session_id)

\* C37: constructing a ProfessionalArchiver completes and leaves exactly one
\* crawl_state row for the new session, with status 'running' and zero URLs
\* processed.
C37_ConstructionCompletes ==
    /\ a_state # "init_raised"
    /\ a_state = "start" =>
           /\ Len(session_rows(a_db, a_session_id)) = 1
           /\ session_rows(a_db, a_session_id)[1].status = "running"
           /\ session_rows(a_db, a_session_id)[1].total_urls_processed = 0

\* C37: every construction ends in _init_db with AttributeError, without a
\* session id and with the crawl_state table as it was found.
C37_InitDbRaises ==
    [][a_state' = "init_raised" /\ a_session_id' = 0 /\ a_db' = a_db]_vars

(***************************************************************************)
(* SpecFiles: _download_single_asset of the v3/v4 archiver, the asset      *)
(* files it writes and the rows of the assets table.                       *)
(***************************************************************************)
\* most asset downloads of a run
MaxFileDownloads == 4

\* the assets of the site: URL, type given by extract_assets, suffix of the path
FileAssets ==
    {[url |-> "http://a/i.png", type |-> "image", suffix |-> ".png"],
     [url |-> "http://a/j.png", type |-> "image", suffix |-> ".png"],
     [url |-> "http://a/k.css", type |-> "stylesheet", suffix |-> ".css"]}

\* the bodies a download may return
FileContents == {"x", "y", "z"}

\* hashlib.sha256(content).hexdigest()[:8]: 32 of the 256 bits of the digest,
\* so different bodies share their first 8 digits (here "x" and "y")
hex8(content) == IF content \in {"x", "y"} THEN "0badc0de" ELSE "600dcafe"

\* "file_path = target_dir / f'{content_hash[:8]}{file_ext}'"
asset_file_path(asset, content) ==
    [dir |-> asset.type, name |-> hex8(content), suffix |-> asset.suffix]

\* "if not file_path.exists(): ... f.write(content)"
write_new(files, path, content) ==
    IF path \in DOMAIN files THEN files ELSE (path :> content) @@ files

\* INSERT OR IGNORE INTO assets (uri UNIQUE, content_hash UNIQUE)
insert_or_ignore(assets, asset, content) ==
    IF \E i \in 1..Len(assets) :
           \/ assets[i].uri = asset.url
           \/ assets[i].content_hash = sha256(content)
    THEN assets
    ELSE Append(assets, [uri |-> asset.url,
                         file_path |-> asset_file_path(asset, content),
                         content_hash |-> sha256(content)])

FilesInit ==
    /\ NormIdle
    /\ PCIdle
    /\ ArchIdle
    /\ AssetsIdle
    /\ RobotsIdle
    /\ FullIdle
    /\ StoreIdle
    /\ PoliteIdle
    /\ CheckpointIdle
    /\ RewriteIdle
    /\ DocIdle
    /\ ConcIdle
    /\ SiteIdle
    /\ GatherIdle
    /\ k_files = <<>>
    /\ k_assets = <<>>
    /\ k_downloads = 0

filesConfig == <<normVars, pcVars, archVars, assetVars, robotsVars, gatherVars, fullVars,
                 storeVars, politeVars, checkpointVars, rewriteVars, docVars,
                 concVars, site>>

\* status 200: the file is written unless it exists, the row is inserted
FileAssetSaved ==
    /\ k_downloads < MaxFileDownloads
    /\ \E asset \in FileAssets, content \in FileContents :
        /\ k_files' = write_new(k_files, asset_file_path(asset, content), content)
        /\ k_assets' = insert_or_ignore(k_assets, asset, content)
    /\ k_downloads' = k_downloads + 1
    /\ UNCHANGED filesConfig

\* another status, a timeout or an exception before the file is opened
FileAssetFailed ==
    /\ k_downloads < MaxFileDownloads
    /\ k_downloads' = k_downloads + 1
    /\ UNCHANGED <<filesConfig, k_files, k_assets>>

FilesNext == FileAssetSaved \/ FileAssetFailed

SpecFiles == FilesInit /\ [][FilesNext]_vars

\* C38: the file named by an Asset Record's file_path holds the bytes whose
\* SHA-256 is the record's content_hash.
C38_ContentAddressed ==
    \A i \in 1..Len(k_assets) :
        /\ k_assets[i].file_path \in DOMAIN k_files
        /\ sha256(k_files[k_assets[i].file_path]) = k_assets[i].content_hash

\* C38: the file of an Asset Record exists, is never rewritten, and holds
\* bytes whose digest begins with the 8 digits of the record's content_hash.
C38_PrefixAddressed ==
    /\ \A i \in 1..Len(k_assets) :
           /\ k_assets[i].file_path \in DOMAIN k_files
           /\ hex8(k_files[k_assets[i].file_path]) = k_assets[i].file_path.name
           /\ k_assets[i].file_path.name = hex8(k_assets[i].content_hash[2])
    /\ [][\A p \in DOMAIN k_files : p \in DOMAIN k_files' /\ k_files'[p] = k_files[p]]_vars

\* C38: the records whose first 8 digits no other body shares name a file
\* with their bytes.
C38_UnsharedPrefix ==
    \A i \in 1..Len(k_assets) :
        (\A c \in FileContents :
             hex8(c) = k_assets[i].file_path.name => sha256(c) = k_assets[i].content_hash) =>
            sha256(k_files[k_assets[i].file_path]) = k_assets[i].content_hash

(***************************************************************************)
(* SpecGather: FullCrawler.download_assets and its _download_single tasks. *)
(***************************************************************************)
\* most tags with an asset URL on one page
MaxTags == 2
\* most pages whose assets are downloaded
MaxAssetPages == 2

\* the asset URLs of the site
TagURLs == {"http://a/i.png", "http://a/k.css"}

\* the asset URLs of the tags of a page, in document order (a URL may stand
\* in several tags)
TagLists == UNION {[1..n -> TagURLs] : n \in 1..MaxTags}

\* "tasks.append(self._download_single(s, asset_url))" for every tag
download_tasks(urls) == [i \in 1..Len(urls) |-> [url |-> urls[i], pc |-> "start"]]

GatherInit ==
    /\ NormIdle
    /\ PCIdle
    /\ ArchIdle
    /\ AssetsIdle
    /\ RobotsIdle
    /\ FullIdle
    /\ StoreIdle
    /\ PoliteIdle
    /\ CheckpointIdle
    /\ RewriteIdle
    /\ DocIdle
    /\ ConcIdle
    /\ FilesIdle
    /\ SiteIdle
    /\ y_tasks = <<>>
    /\ y_file_map = {}
    /\ y_fetches = <<>>
    /\ y_pages = 0

gatherConfig == <<normVars, pcVars, archVars, assetVars, robotsVars, fullVars,
                  storeVars, politeVars, checkpointVars, rewriteVars, docVars,
                  concVars, fileVars, site>>

\* download_assets: "await asyncio.gather(*tasks)" is entered
DownloadAssets ==
    /\ y_tasks = <<>>
    /\ y_pages < MaxAssetPages
    /\ \E urls \in TagLists : y_tasks' = download_tasks(urls)
    /\ y_pages' = y_pages + 1
    /\ UNCHANGED <<gatherConfig, y_file_map, y_fetches>>

\* _download_single up to its await: "if url not in self.file_map" and the
\* s.get of fetch_asset
SingleStart(i) ==
    /\ y_tasks[i].pc = "start"
    /\ IF y_tasks[i].url \in y_file_map
       THEN /\ y_tasks' = [y_tasks EXCEPT ![i].pc = "done"]
            /\ UNCHANGED y_fetches
       ELSE /\ y_tasks' = [y_tasks EXCEPT ![i].pc = "get"]
            /\ y_fetches' = Append(y_fetches, y_tasks[i].url)
    /\ UNCHANGED <<gatherConfig, y_file_map, y_pages>>

\* fetch_asset returns the bytes: the file is written, "self.file_map[url] =
\* ..."
SingleSaved(i) ==
    /\ y_tasks[i].pc = "get"
    /\ y_tasks' = [y_tasks EXCEPT ![i].pc = "done"]
    /\ y_file_map' = y_file_map \cup {y_tasks[i].url}
    /\ UNCHANGED <<gatherConfig, y_fetches, y_pages>>

\* fetch_asset returns None or empty bytes: "if data" is false
SingleNoData(i) ==
    /\ y_tasks[i].pc = "get"
    /\ y_tasks' = [y_tasks EXCEPT ![i].pc = "done"]
    /\ UNCHANGED <<gatherConfig, y_file_map, y_fetches, y_pages>>

\* asyncio.gather returns
GatherReturns ==
    /\ y_tasks # <<>>
    /\ \A i \in 1..Len(y_tasks) : y_tasks[i].pc = "done"
    /\ y_tasks' = <<>>
    /\ UNCHANGED <<gatherConfig, y_file_map, y_fetches, y_pages>>

GatherNext ==
    \/ DownloadAssets
    \/ \E i \in 1..Len(y_tasks) : SingleStart(i)
    \/ \E i \in 1..Len(y_tasks) : SingleSaved(i)
    \/ \E i \in 1..Len(y_tasks) : SingleNoData(i)
    \/ GatherReturns

SpecGather == GatherInit /\ [][GatherNext]_vars

\* the requests made for a URL
fetches_of(url) == Len(SelectSeq(y_fetches, LAMBDA u : u = url))

\* C39: an asset URL is fetched at most once per run.
C39_AtMostOnce == \A url \in TagURLs : fetches_of(url) <= 1

\* C39: a URL that is in file_map is not fetched again.
C39_MappedNotFetched ==
    [][y_fetches' # y_fetches => y_fetches'[Len(y_fetches')] \notin y_file_map]_vars

\* C39: a URL whose bytes were stored by an earlier page is fetched once.
C39_OncePerStoredUrl ==
    [][\A url \in y_file_map : fetches_of(url)' = fetches_of(url)]_vars

=========================================================================
